---- MODULE Spec2Model ----
(***************************************************************************)
(* Model of the response-formatting pipeline of the chat front end:        *)
(* parseMarkdown, processBoldAndCitations and processCitations of          *)
(* src/components/ChatInterface.tsx.                                        *)
(*                                                                         *)
(* A string is a sequence of one-character strings.  Positions follow the  *)
(* source: match.index, lastIndex and slice() bounds are 0-based.          *)
(***************************************************************************)
EXTENDS Integers, Sequences, FiniteSets, Bags, TLC

(***************************************************************************)
(* Bounds of the model.                                                    *)
(***************************************************************************)
MaxLines == 4
MaxTextLen == 3
MaxContentLen == 4
MaxKeyOffset == 1
MaxCalls == 2
MaxSessions == 1
MaxMessages == 2
MaxDocuments == 2

(***************************************************************************)
(* Characters and the character classes of the regular expressions.        *)
(***************************************************************************)
NL == "\n"
CR == "\r"
TAB == "\t"
\* The bullet character U+2022, written by its code point.
BULLET == "u2022"

IsSpace(c) == c \in {" ", TAB, NL, CR}
IsLineTerminator(c) == c \in {NL, CR}
IsDigit(c) == c \in {"0", "1", "2", "3", "4", "5", "6", "7", "8", "9"}
IsBulletMarker(c) == c \in {"*", BULLET, "-"}

(***************************************************************************)
(* String primitives of the host language.                                 *)
(***************************************************************************)
SetMin(S) == CHOOSE x \in S : \A y \in S : x <= y

SetMax(S) == CHOOSE x \in S : \A y \in S : y <= x

CharAt(s, i) == s[i + 1]

Slice(s, from, to) == SubSeq(s, from + 1, to)

SliceFrom(s, from) == SubSeq(s, from + 1, Len(s))

StartsWith(s, i, pat) ==
    /\ i + Len(pat) <= Len(s)
    /\ \A k \in 1..Len(pat) : s[i + k] = pat[k]

\* Length of the longest run of whitespace starting at 0-based position i.
SpaceRun(s, i) ==
    CHOOSE n \in 0..(Len(s) - i) :
        /\ \A j \in i..(i + n - 1) : IsSpace(CharAt(s, j))
        /\ (i + n = Len(s) \/ ~IsSpace(CharAt(s, i + n)))

\* Length of the longest run of digits starting at 0-based position i.
DigitRun(s, i) ==
    CHOOSE n \in 0..(Len(s) - i) :
        /\ \A j \in i..(i + n - 1) : IsDigit(CharAt(s, j))
        /\ (i + n = Len(s) \/ ~IsDigit(CharAt(s, i + n)))

\* s from its first to its last position of keep.
Between(s, keep) ==
    IF keep = {} THEN <<>> ELSE SubSeq(s, SetMin(keep), SetMax(keep))

\* A trim that removes the space character only.
TrimSpacesOnly(s) == Between(s, {i \in 1..Len(s) : s[i] # " "})

\* String.prototype.trim
Trim(s) == Between(s, {i \in 1..Len(s) : ~IsSpace(s[i])})

RECURSIVE SplitFrom(_, _)
SplitFrom(rest, cur) ==
    IF rest = <<>> THEN <<cur>>
    ELSE IF Head(rest) = NL THEN <<cur>> \o SplitFrom(Tail(rest), <<>>)
    ELSE SplitFrom(Tail(rest), Append(cur, Head(rest)))

DropTrailingEmpty(pieces) ==
    IF \A i \in 1..Len(pieces) : pieces[i] = <<>> THEN <<>>
    ELSE SubSeq(pieces, 1, SetMax({i \in 1..Len(pieces) : pieces[i] # <<>>}))

\* A split that discards trailing empty pieces.
SplitDropTrailing(text) == DropTrailingEmpty(SplitFrom(text, <<>>))

\* text.split('\n')
Split(text) == SplitFrom(text, <<>>)

(***************************************************************************)
(* Inline parts.  A part is a plain string or an element; a plain string   *)
(* has the empty key.                                                      *)
(***************************************************************************)
TextPart(s) == [type |-> "text", text |-> s, key |-> <<>>]
BoldPart(s, k) == [type |-> "bold", text |-> s, key |-> <<k>>]
CitationPart(s, k1, k2) == [type |-> "citation", text |-> s, key |-> <<k1, k2>>]

\* A function of the pipeline returns either an array of parts or the
\* string it was given.
ArrayResult(parts) == [isArray |-> TRUE, parts |-> parts, text |-> <<>>]
StringResult(s) == [isArray |-> FALSE, parts |-> <<>>, text |-> s]

\* The result of RegExp.exec: null, or the match with its index, the
\* lastIndex it leaves behind and its groups.
NoMatch == [found |-> FALSE, index |-> 0, end |-> 0, group |-> <<>>, colon |-> <<>>]
Match(i, e, group, colon) ==
    [found |-> TRUE, index |-> i, end |-> e, group |-> group, colon |-> colon]

(***************************************************************************)
(* processCitations: /\[(\d+)\]/g                                          *)
(***************************************************************************)
\* An open bracket at i, then n digits: one digit at least and a close
\* bracket after them.
CitationCloses(text, i, n) ==
    /\ n >= 1
    /\ i + 1 + n < Len(text)
    /\ CharAt(text, i + 1 + n) = "]"

\* The citation pattern matches at 0-based position i.
CitationMatchAt(text, i) ==
    /\ i < Len(text)
    /\ CharAt(text, i) = "["
    /\ CitationCloses(text, i, DigitRun(text, i + 1))

CitationMatch(text, i, n) == Match(i, i + n + 2, Slice(text, i + 1, i + 1 + n), <<>>)

\* The leftmost of the candidate positions.
CitationFirst(text, cands) ==
    IF cands = {} THEN NoMatch
    ELSE CitationMatch(text, SetMin(cands), DigitRun(text, SetMin(cands) + 1))

\* Length of the longest run of word characters starting at 0-based
\* position i.
WordRun(s, i) ==
    CHOOSE n \in 0..(Len(s) - i) :
        /\ \A j \in i..(i + n - 1) : CharAt(s, j) \in {"1", "2", "a", "n", "o", "t", "e"}
        /\ (i + n = Len(s) \/ CharAt(s, i + n) \notin {"1", "2", "a", "n", "o", "t", "e"})

CitationFirstWord(text, cands) ==
    IF cands = {} THEN NoMatch
    ELSE CitationMatch(text, SetMin(cands), WordRun(text, SetMin(cands) + 1))

\* A citation pattern that accepts letters between the brackets,
\* /\[(\w+)\]/g.
CitationExecWord(text, from) ==
    CitationFirstWord(text,
        {i \in from..(Len(text) - 1) :
            /\ CharAt(text, i) = "["
            /\ WordRun(text, i + 1) >= 1
            /\ i + 1 + WordRun(text, i + 1) < Len(text)
            /\ CharAt(text, i + 1 + WordRun(text, i + 1)) = "]"})

\* A citation pattern that accepts an empty digit run, /\[(\d*)\]/g.
CitationExecEmptyDigits(text, from) ==
    CitationFirst(text,
        {i \in from..(Len(text) - 1) :
            /\ CharAt(text, i) = "["
            /\ i + 1 + DigitRun(text, i + 1) < Len(text)
            /\ CharAt(text, i + 1 + DigitRun(text, i + 1)) = "]"})

\* citationRegex.exec(text) with citationRegex.lastIndex = from: the
\* leftmost match at or after from.
CitationExec(text, from) ==
    CitationFirst(text, {i \in from..(Len(text) - 1) : CitationMatchAt(text, i)})

\* The text before the citation, when there is some.
BeforeCitation(text, parts, lastIndex, match) ==
    IF match.index > lastIndex
    THEN Append(parts, TextPart(Slice(text, lastIndex, match.index)))
    ELSE parts

\* The while loop of processCitations; lastIndex is also the position the
\* global regex resumes from.
RECURSIVE CitationLoop(_, _, _, _)
CitationPush(text, keyOffset, before, match) ==
    CitationLoop(text, keyOffset,
                 Append(before, CitationPart(match.group, keyOffset, Len(before))),
                 match.end)

CitationIteration(text, keyOffset, parts, lastIndex, match) ==
    IF ~match.found THEN [parts |-> parts, lastIndex |-> lastIndex]
    ELSE CitationPush(text, keyOffset,
                      BeforeCitation(text, parts, lastIndex, match), match)

CitationLoop(text, keyOffset, parts, lastIndex) ==
    CitationIteration(text, keyOffset, parts, lastIndex, CitationExec(text, lastIndex))

\* The remaining text is added after the loop.
CitationRemaining(text, loop) ==
    IF loop.lastIndex < Len(text)
    THEN Append(loop.parts, TextPart(SliceFrom(text, loop.lastIndex)))
    ELSE loop.parts

\* return parts.length > 1 ? parts : text
CitationReturn(text, parts) ==
    IF Len(parts) > 1 THEN ArrayResult(parts) ELSE StringResult(text)

TrimTextParts(parts) ==
    [i \in 1..Len(parts) |->
        IF parts[i].type = "text" THEN TextPart(Trim(parts[i].text)) ELSE parts[i]]

\* processCitations that trims the text pieces around the markers.
processCitationsTrimmed(text, keyOffset) ==
    CitationReturn(text,
        TrimTextParts(CitationRemaining(text, CitationLoop(text, keyOffset, <<>>, 0))))

processCitations(text, keyOffset) ==
    CitationReturn(text, CitationRemaining(text, CitationLoop(text, keyOffset, <<>>, 0)))

(***************************************************************************)
(* processBoldAndCitations: /\*\*(.*?)\*\*(:?)/g                           *)
(***************************************************************************)
\* The 0-based positions q >= from at which a closing pair can end a run of
\* '.' characters that started at from ('.' matches no line terminator).
ClosingPairs(text, from) ==
    {q \in from..(Len(text) - 2) :
        /\ StartsWith(text, q, <<"*", "*">>)
        /\ \A j \in from..(q - 1) : ~IsLineTerminator(CharAt(text, j))}

BoldMatchAt(text, i) ==
    /\ StartsWith(text, i, <<"*", "*">>)
    /\ ClosingPairs(text, i + 2) # {}

\* The match that opens at i and closes at q, without the colon group.
BoldMatchNoColon(text, i, q) == Match(i, q + 2, Slice(text, i + 2, q), <<>>)

\* The match that opens at i and closes at q: (:?) takes the colon that
\* follows the closing pair when there is one.
BoldMatch(text, i, q) ==
    IF q + 2 < Len(text) /\ CharAt(text, q + 2) = ":"
    THEN Match(i, q + 3, Slice(text, i + 2, q), <<":">>)
    ELSE Match(i, q + 2, Slice(text, i + 2, q), <<>>)

\* The match that opens at i and runs to the end of the text.
BoldMatchToEnd(text, i) == Match(i, Len(text), Slice(text, i + 2, Len(text)), <<>>)

BoldFirstNoColon(text, cands) ==
    IF cands = {} THEN NoMatch
    ELSE BoldMatchNoColon(text, SetMin(cands),
                          SetMin(ClosingPairs(text, SetMin(cands) + 2)))

BoldFirstOpenEnded(text, cands) ==
    IF cands = {} THEN NoMatch
    ELSE IF ClosingPairs(text, SetMin(cands) + 2) = {}
    THEN BoldMatchToEnd(text, SetMin(cands))
    ELSE BoldMatch(text, SetMin(cands), SetMin(ClosingPairs(text, SetMin(cands) + 2)))

\* The leftmost of the candidate positions; the lazy group ends at the
\* first closing pair.
BoldFirst(text, cands) ==
    IF cands = {} THEN NoMatch
    ELSE BoldMatch(text, SetMin(cands), SetMin(ClosingPairs(text, SetMin(cands) + 2)))

BoldFirstGreedy(text, cands) ==
    IF cands = {} THEN NoMatch
    ELSE BoldMatch(text, SetMin(cands), SetMax(ClosingPairs(text, SetMin(cands) + 2)))

\* A greedy bold pattern, /\*\*(.*)\*\*(:?)/g: the span ends at the last
\* closing pair.
BoldExecGreedy(text, from) ==
    BoldFirstGreedy(text, {i \in from..(Len(text) - 1) : BoldMatchAt(text, i)})

\* A bold pattern without the colon group, /\*\*(.*?)\*\*/g.
BoldExecNoColon(text, from) ==
    BoldFirstNoColon(text, {i \in from..(Len(text) - 1) : BoldMatchAt(text, i)})

\* A bold pattern whose span may also end at the end of the text,
\* /\*\*(.*?)(?:\*\*(:?)|$)/g.
BoldExecOpenEnded(text, from) ==
    BoldFirstOpenEnded(text,
        {i \in from..(Len(text) - 1) : StartsWith(text, i, <<"*", "*">>)})

\* boldRegex.exec(text) with boldRegex.lastIndex = from: the leftmost
\* opening pair that has a closing pair.
BoldExec(text, from) ==
    BoldFirst(text, {i \in from..(Len(text) - 1) : BoldMatchAt(text, i)})

\* parts.push(...citationParts) when an array came back, parts.push(it)
\* when a string came back.
PushCitationParts(parts, citationParts) ==
    IF citationParts.isArray THEN parts \o citationParts.parts
    ELSE Append(parts, TextPart(citationParts.text))

\* The text before the bold part goes through processCitations, when
\* there is some.
BeforeBold(text, parts, lastIndex, match) ==
    IF match.index > lastIndex
    THEN PushCitationParts(parts,
             processCitations(Slice(text, lastIndex, match.index), Len(parts)))
    ELSE parts

\* The while loop of processBoldAndCitations.
RECURSIVE BoldLoop(_, _, _)
\* A loop that also hands the text of the bold span to processCitations and
\* pushes the parts that come back when it holds markers.
BoldPushCited(text, before, match) ==
    BoldLoop(text,
             IF processCitations(match.group, Len(before)).isArray
             THEN before \o processCitations(match.group, Len(before)).parts
             ELSE Append(before, BoldPart(match.group \o match.colon, Len(before))),
             match.end)

BoldPush(text, before, match) ==
    BoldLoop(text,
             Append(before, BoldPart(match.group \o match.colon, Len(before))),
             match.end)

BoldIteration(text, parts, lastIndex, match) ==
    IF ~match.found THEN [parts |-> parts, lastIndex |-> lastIndex]
    ELSE BoldPush(text, BeforeBold(text, parts, lastIndex, match), match)

BoldLoop(text, parts, lastIndex) ==
    BoldIteration(text, parts, lastIndex, BoldExec(text, lastIndex))

\* The remaining text goes through processCitations after the loop.
BoldRemaining(text, loop) ==
    IF loop.lastIndex < Len(text)
    THEN PushCitationParts(loop.parts,
             processCitations(SliceFrom(text, loop.lastIndex), Len(loop.parts)))
    ELSE loop.parts

\* return parts.length > 0 ? parts : text
BoldReturn(text, parts) ==
    IF Len(parts) > 0 THEN ArrayResult(parts) ELSE StringResult(text)

processBoldAndCitations(text) ==
    BoldReturn(text, BoldRemaining(text, BoldLoop(text, <<>>, 0)))

(***************************************************************************)
(* The line patterns of parseMarkdown, applied to the trimmed line.        *)
(***************************************************************************)
\* /^[\*•\-]\s*\*\*.*\*\*:?/ (the bullet set also holds U+2022)
MatchesBulletHeader(t) ==
    /\ Len(t) >= 1
    /\ IsBulletMarker(CharAt(t, 0))
    /\ BoldMatchAt(t, 1 + SpaceRun(t, 1))

\* A second bullet marker at 0-based position p, after some whitespace.
SecondMarkerAt(t, p) ==
    /\ p >= 2
    /\ p < Len(t)
    /\ IsBulletMarker(CharAt(t, p))

\* A nested pattern of two adjacent markers, /^[\*•\-][\*•\-]/.
MatchesNestedAdjacent(t) ==
    /\ Len(t) >= 2
    /\ IsBulletMarker(CharAt(t, 0))
    /\ IsBulletMarker(CharAt(t, 1))

\* /^[\*•\-]\s+[\*•\-]/
MatchesNestedBullet(t) ==
    /\ Len(t) >= 1
    /\ IsBulletMarker(CharAt(t, 0))
    /\ SecondMarkerAt(t, 1 + SpaceRun(t, 1))

\* A plain bullet pattern that knows the dash only, /^-\s/.
MatchesBulletDashOnly(t) ==
    /\ Len(t) >= 2
    /\ CharAt(t, 0) = "-"
    /\ IsSpace(CharAt(t, 1))

\* /^[\*•\-]\s/
MatchesBullet(t) ==
    /\ Len(t) >= 2
    /\ IsBulletMarker(CharAt(t, 0))
    /\ IsSpace(CharAt(t, 1))

\* /^\+\s/
MatchesPlusBullet(t) ==
    /\ Len(t) >= 2
    /\ CharAt(t, 0) = "+"
    /\ IsSpace(CharAt(t, 1))

\* n digits, then a dot and a whitespace character.
DotSpaceAfter(t, n) ==
    /\ n >= 1
    /\ n + 1 < Len(t)
    /\ CharAt(t, n) = "."
    /\ IsSpace(CharAt(t, n + 1))

\* /^\d+\.\s/
MatchesNumbered(t) == DotSpaceAfter(t, DigitRun(t, 0))

\* Only whitespace from 0-based position e to the end of t.
BlankFrom(t, e) == e + SpaceRun(t, e) = Len(t)

\* After the closing pair at q: at most one colon, then only whitespace.
EndsAfterPair(t, q) ==
    \/ BlankFrom(t, q + 2)
    \/ (q + 2 < Len(t) /\ CharAt(t, q + 2) = ":" /\ BlankFrom(t, q + 3))

\* /^\*\*.*\*\*:?\s*$/ : the greedy .* may stop at any closing pair.
MatchesBoldHeader(t) ==
    /\ StartsWith(t, 0, <<"*", "*">>)
    /\ \E q \in ClosingPairs(t, 2) : EndsAfterPair(t, q)

\* trimmedLine.replace(/^[\*•\-]\s*/, '')
StripBullet(t) == SliceFrom(t, 1 + SpaceRun(t, 1))

\* The text after the second marker at p and the whitespace after it.
AfterSecondMarker(t, p) == SliceFrom(t, p + 1 + SpaceRun(t, p + 1))

\* trimmedLine.replace(/^[\*•\-]\s+[\*•\-]\s*/, '')
StripNestedBullet(t) == AfterSecondMarker(t, 1 + SpaceRun(t, 1))

\* trimmedLine.replace(/^\+\s*/, '')
StripPlus(t) == SliceFrom(t, 1 + SpaceRun(t, 1))

\* The text after the dot at 0-based position dot and the whitespace after it.
AfterDot(t, dot) == SliceFrom(t, dot + 1 + SpaceRun(t, dot + 1))

\* trimmedLine.replace(/^\d+\.\s*/, '')
StripNumber(t) == AfterDot(t, DigitRun(t, 0))

\* The first n characters when they are digits followed by a dot, else '1'.
DigitsBeforeDot(t, n) ==
    IF n >= 1 /\ n < Len(t) /\ CharAt(t, n) = "." THEN Slice(t, 0, n) ELSE <<"1">>

RECURSIVE DropLeadingZeros(_)
DropLeadingZeros(d) ==
    IF Len(d) > 1 /\ Head(d) = "0" THEN DropLeadingZeros(Tail(d)) ELSE d

\* A label that goes through parseInt: the leading zeros are lost.
NumberLabelAsInteger(t) == DropLeadingZeros(DigitsBeforeDot(t, DigitRun(t, 0)))

\* trimmedLine.match(/^(\d+)\./)?.[1] || '1'
NumberLabel(t) == DigitsBeforeDot(t, DigitRun(t, 0))

(***************************************************************************)
(* The callback of lines.forEach.  The branch taken names the block:       *)
(* Spacer, BulletHeader, NestedNumberedItem, BulletItem, PlusBulletItem,   *)
(* NumberedItem, Header, Paragraph.                                        *)
(***************************************************************************)
\* A chain in which the last branch is taken only for a bold line and a
\* line that matches nothing gets no branch of its own.
KindOfNoFallback(t) ==
    IF t = <<>> THEN "Spacer"
    ELSE IF MatchesBulletHeader(t) THEN "BulletHeader"
    ELSE IF MatchesNestedBullet(t) THEN "NestedNumberedItem"
    ELSE IF MatchesBullet(t) THEN "BulletItem"
    ELSE IF MatchesPlusBullet(t) THEN "PlusBulletItem"
    ELSE IF MatchesNumbered(t) THEN "NumberedItem"
    ELSE "Header"

\* A chain that tries the plain bullet pattern before the bold-headed and
\* the nested ones.
KindOfBulletFirst(t) ==
    IF t = <<>> THEN "Spacer"
    ELSE IF MatchesBullet(t) THEN "BulletItem"
    ELSE IF MatchesBulletHeader(t) THEN "BulletHeader"
    ELSE IF MatchesNestedBullet(t) THEN "NestedNumberedItem"
    ELSE IF MatchesPlusBullet(t) THEN "PlusBulletItem"
    ELSE IF MatchesNumbered(t) THEN "NumberedItem"
    ELSE IF MatchesBoldHeader(t) THEN "Header"
    ELSE "Paragraph"

\* The if / else-if chain: the first pattern that matches decides.
KindOf(t) ==
    IF t = <<>> THEN "Spacer"
    ELSE IF MatchesBulletHeader(t) THEN "BulletHeader"
    ELSE IF MatchesNestedBullet(t) THEN "NestedNumberedItem"
    ELSE IF MatchesBullet(t) THEN "BulletItem"
    ELSE IF MatchesPlusBullet(t) THEN "PlusBulletItem"
    ELSE IF MatchesNumbered(t) THEN "NumberedItem"
    ELSE IF MatchesBoldHeader(t) THEN "Header"
    ELSE "Paragraph"

\* The content handed to processBoldAndCitations in each branch.
ContentOf(kind, t) ==
    CASE kind = "BulletHeader" -> StripBullet(t)
      [] kind = "NestedNumberedItem" -> StripNestedBullet(t)
      [] kind = "BulletItem" -> StripBullet(t)
      [] kind = "PlusBulletItem" -> StripPlus(t)
      [] kind = "NumberedItem" -> StripNumber(t)
      [] OTHER -> t

\* A counter that every block other than a nested item restarts.
CounterAfterRestart(kind, counter) ==
    IF kind = "NestedNumberedItem" THEN counter + 1 ELSE 0

\* A counter that a bold-headed bullet does not reset.
CounterAfterNoReset(kind, counter) ==
    IF kind = "NestedNumberedItem" THEN counter + 1 ELSE counter

\* A counter that a nested bullet does not increment.
CounterAfterNoIncrement(kind, counter) ==
    IF kind = "BulletHeader" THEN 0 ELSE counter

\* nestedCounter after the branch: reset by the bold-headed bullet,
\* incremented by the nested bullet, untouched by every other branch.
CounterAfter(kind, counter) ==
    IF kind = "BulletHeader" THEN 0
    ELSE IF kind = "NestedNumberedItem" THEN counter + 1
    ELSE counter

\* The marker shown before the content.
LabelOf(kind, t) ==
    CASE kind \in {"BulletHeader", "BulletItem"} -> <<BULLET>>
      [] kind = "PlusBulletItem" -> <<"+">>
      [] kind = "NumberedItem" -> NumberLabel(t)
      [] OTHER -> <<>>

\* The element pushed by the branch. number is the value of nestedCounter
\* when the element is built.
Element(kind, t, idx, number) ==
    [key |-> idx,
     kind |-> kind,
     number |-> IF kind = "NestedNumberedItem" THEN number ELSE 0,
     label |-> LabelOf(kind, t),
     children |-> IF kind = "Spacer" THEN ArrayResult(<<>>)
                  ELSE processBoldAndCitations(ContentOf(kind, t))]

\* The branch of the given kind: the new elements and the new nestedCounter.
Branch(els, counter, t, idx, kind) ==
    [elements |-> Append(els, Element(kind, t, idx, CounterAfter(kind, counter))),
     nestedCounter |-> CounterAfter(kind, counter)]

\* A branch that pushes nothing for a blank line.
BranchSkipBlank(els, counter, t, idx, kind) ==
    IF kind = "Spacer" THEN [elements |-> els, nestedCounter |-> counter]
    ELSE Branch(els, counter, t, idx, kind)

\* A callback that pushes nothing for a blank line.
forEachCallbackSkipBlank(els, counter, line, idx) ==
    BranchSkipBlank(els, counter, Trim(line), idx, KindOf(Trim(line)))

\* One call of the callback on line, the idx-th of the lines.
forEachCallback(els, counter, line, idx) ==
    Branch(els, counter, Trim(line), idx, KindOf(Trim(line)))

(***************************************************************************)
(* The inputs of the model.                                                *)
(***************************************************************************)
LineHeaderBullet == <<"*", " ", "*", "*", "D", "*", "*", ":", " ", "P">>
LineNested == <<"-", " ", "-", " ", "a">>
LineBullet == <<" ", "-", " ", "a">>
LinePlus == <<"+", " ", "a">>
LineNumbered == <<"1", "2", ".", " ", "a", CR>>
LineBoldHeader == <<"*", "*", "H", "*", "*", ":">>
LineCited == <<"a", " ", "[", "1", "]">>

\* One line of each shape the callback distinguishes.
SampleLines ==
    {<<>>, LineHeaderBullet, LineNested, LineBullet, LinePlus, LineNumbered,
     LineBoldHeader, LineCited}

RECURSIVE JoinLines(_)
JoinLines(ls) ==
    IF Len(ls) = 1 THEN ls[1] ELSE ls[1] \o <<NL>> \o JoinLines(Tail(ls))

\* Texts of up to MaxLines sample lines.
SampleTexts ==
    {JoinLines(ls) : ls \in UNION {[1..n -> SampleLines] : n \in 1..MaxLines}}

TextAlphabet == {NL, " ", "-", "*", "+", "1", ".", "a"}

\* Every text of up to MaxTextLen characters.
SmallTexts == UNION {[1..n -> TextAlphabet] : n \in 0..MaxTextLen}

TextDirectAnswer ==
    <<"*", " ", "*", "*", "D", "i", "r", "e", "c", "t", " ", "A", "n", "s",
      "w", "e", "r", "*", "*", ":", " ", "P", "a", "r", "i", "s">>
TextAgentic ==
    <<"*", " ", "*", " ", "A", "g", "e", "n", "t", "i", "c", " ", "A", "I",
      " ", "r", "e", "f", "e", "r", "s", " ", "t", "o", " ", "a", "u", "t",
      "o", "n", "o", "m", "y">>
TextNoMarkers ==
    <<"N", "o", " ", "m", "a", "r", "k", "e", "r", "s", " ", "h", "e", "r",
      "e", ".">>
TextUnclosedBold ==
    <<"U", "n", "c", "l", "o", "s", "e", "d", " ", "*", "*", "b", "o", "l",
      "d">>
TextSeeCitations ==
    <<"S", "e", "e", " ", "[", "1", "]", " ", "a", "n", "d", " ", "[", "2",
      "]", " ", "f", "o", "r", " ", "d", "e", "t", "a", "i", "l", "s">>

\* The example messages of the specification, as whole texts.
ExampleTexts ==
    {TextDirectAnswer, TextAgentic, TextAgentic \o <<NL>> \o TextAgentic,
     TextNoMarkers, TextUnclosedBold, TextSeeCitations}

\* One-line texts made of a bullet marker, optional whitespace, a bold pair
\* around X, a colon and a tail.
HeaderTexts ==
    {<<m>> \o gap \o <<"*", "*">> \o X \o <<"*", "*", ":">> \o tail :
        m \in {"*", BULLET, "-"},
        gap \in {<<>>, <<" ">>},
        X \in {<<>>, <<"D">>, <<"*", "a">>, <<"a", ":">>},
        tail \in {<<" ", "P">>, <<":", "P">>, <<"a", " ", "*", "*">>}}

\* One-line texts made of a bold pair around X, an optional colon and a
\* tail.
BoldLineTexts ==
    {<<"*", "*">> \o X \o <<"*", "*">> \o colon \o tail :
        X \in {<<>>, <<"a">>, <<"a", "*", "b">>, <<"a", ":">>},
        colon \in {<<>>, <<":">>},
        tail \in {<<>>, <<" ">>, <<"*">>, <<":">>, <<" ", "b">>,
                  <<" ", "b", " ", "*", "*", "c", "*", "*">>}}

LineNumberedZeros == <<"0", "0", "7", ".", " ", "a">>

\* Texts with numbered lines: leading zeros, the same number twice, numbers
\* out of order, a tab after the dot, after a nested item or on their own.
NumberedTexts ==
    {JoinLines(<<first, d1 \o <<".", ws>> \o rest, d2 \o <<".", " ", "b">>>>) :
        first \in {LineNested, <<"a">>},
        d1 \in {<<"0", "0", "7">>, <<"5">>, <<"1", "0">>},
        ws \in {" ", TAB},
        rest \in {<<"a">>, <<" ", "a", " ", "[", "2", "]">>, <<"*", "*", "b", "*", "*">>},
        d2 \in {<<"0", "0", "7">>, <<"2">>}}
    \cup {LineNumberedZeros, <<"0", ".", " ", "a">>, <<"1", ".", "a">>, <<"1", " ", ".", " ", "a">>}

\* Every text of up to MaxTextLen whitespace characters.
BlankTexts == UNION {[1..n -> {" ", TAB, CR, NL}] : n \in 0..MaxTextLen}

Texts == SampleTexts \cup SmallTexts \cup ExampleTexts \cup HeaderTexts \cup BlankTexts
           \cup BoldLineTexts \cup NumberedTexts

ContentSeeCitations ==
    <<"S", "e", "e", " ", "[", "1", "]", " ", "a", "n", "d", " ", "[", "2",
      "]", " ", "f", "o", "r", " ", "d", "e", "t", "a", "i", "l", "s">>
ContentUnclosedBold ==
    <<"U", "n", "c", "l", "o", "s", "e", "d", " ", "*", "*", "b", "o", "l",
      "d">>
ContentNoMarkers ==
    <<"N", "o", " ", "m", "a", "r", "k", "e", "r", "s", " ", "h", "e", "r",
      "e", ".">>
ContentDirectAnswer ==
    <<"*", "*", "D", "i", "r", "e", "c", "t", " ", "A", "n", "s", "w", "e",
      "r", "*", "*", ":", " ", "P", "a", "r", "i", "s">>
ContentTwoBolds == <<"*", "*", "a", "*", "*", " ", "b", " ", "*", "*", "c", "*", "*">>
ContentBoldThenCitation == <<"*", "*", "a", "*", "*", "[", "1", "]">>
ContentBoldWithCitation == <<"*", "*", "s", "e", "e", " ", "[", "1", "]", "*", "*">>
ContentNote == <<"[", "n", "o", "t", "e", "]", " ", "[", "1", "a", "]", " ", "[", "]">>
ContentNoteCited == <<"[", "a", "]", "[", "1", "]">>

\* Contents with markers inside and around a bold span.
BoldCitedContents ==
    {pre \o <<"*", "*">> \o X \o <<"*", "*">> \o post :
        pre \in {<<>>, <<"[", "2", "]">>, <<"a", " ", "[", "2", "]", " ">>},
        X \in {<<"[", "1", "]">>, <<"a", "[", "1", "]">>, <<"[", "1", "]", "[", "2", "]">>,
               <<"[", "1">>},
        post \in {<<>>, <<":">>, <<"]">>, <<" ", "[", "3", "]", " ", "b">>}}

SampleContents ==
    {ContentSeeCitations, ContentUnclosedBold, ContentNoMarkers, ContentDirectAnswer,
     ContentTwoBolds, ContentBoldThenCitation, ContentBoldWithCitation, ContentNote,
     ContentNoteCited} \cup BoldCitedContents

InlineAlphabet == {"*", ":", "[", "]", "1", "a", " "}

SmallContents == UNION {[1..n -> InlineAlphabet] : n \in 0..MaxContentLen}

\* The contents a line can hand to processBoldAndCitations: the line was
\* trimmed and its marker stripped together with the whitespace after it.
Contents == {c \in SampleContents \cup SmallContents : Trim(c) = c}

\* The fragments processBoldAndCitations can hand to processCitations: the
\* non-empty text before a bold match or after the last one.
Fragments ==
    {f \in SampleContents \cup SmallContents : f # <<>> /\ ~BoldExec(f, 0).found}

\* The texts that are parsed again after their Document was kept.
ReplayTexts ==
    {JoinLines(<<LineNested, LineNested>>),
     JoinLines(<<LineHeaderBullet, LineNested, LineCited>>),
     JoinLines(<<LineBoldHeader, <<>>, LineNumbered>>)}

\* message.content: a string, or absent (undefined).
Undefined == [defined |-> FALSE, value |-> <<>>]
Defined(s) == [defined |-> TRUE, value |-> s]

\* The 'No content' literal of renderMessage.
NoContent == <<"N", "o", " ", "c", "o", "n", "t", "e", "n", "t">>

\* message.content || 'No content': undefined and '' are falsy.
ContentOrDefault(content) ==
    IF content.defined /\ content.value # <<>> THEN content.value ELSE NoContent

\* The messages handed to renderMessage.
Messages ==
    [role : {"user", "assistant"},
     content : {Undefined, Defined(<<>>), Defined(<<" ">>), Defined(LineCited),
                Defined(JoinLines(<<LineBoldHeader, LineNested>>))}]

NoMessage == [role |-> "none", content |-> Undefined]

\* No Document of an earlier call is held.
NoDocument ==
    [kept |-> FALSE, text |-> <<>>, elements |-> <<>>, nestedCounter |-> 0,
     between |-> FALSE]

(***************************************************************************)
(* State.                                                                  *)
(***************************************************************************)
VARIABLES
    pc,             \* "idle", "forEach" and "done" of parseMarkdown, or "applied"
    text,           \* the argument of parseMarkdown
    lines,          \* text.split('\n')
    index,          \* the index of the next line of lines.forEach
    elements,       \* the elements pushed so far
    nestedCounter,  \* the numbering register
    returned,       \* what the call returned: "none", "text", "element"
    applied,        \* the inline function applied on its own, "raw" for content
                    \* shown as it is, or "none"
    arg,            \* its text argument
    keyOffset,      \* its keyOffset argument
    result,         \* what it returned
    message,        \* the message renderMessage is rendering, or NoMessage
    previous        \* the Document an earlier call returned, still held by the
                    \* rendering layer, with the text and the register of that call

\* The state of ChatPage and of the ChatInterface it renders.
VARIABLES
    selectedChatId,     \* the selected chat, NoChat for null
    currentChatTitle,   \* "", "stored" for a title the backend holds, "generated"
    messages,           \* the messages shown
    isLoading,
    selectedDocuments,  \* the file ids of the selected documents
    input,              \* the input state of ChatInterface
    calls,              \* the bag of handler calls suspended at an await
    sessions            \* the number of sessions createSession has created

\* services/api: the module-level token getter and one chatAPI.sendMessage
\* call.
VARIABLES
    getAuthToken,   \* TRUE once setAuthTokenGetter has stored a getter
    apc,            \* where the sendMessage call is suspended, "idle" or "done"
    token,          \* how the getter settled in getAuthHeaders, or "uncalled"
    headers,        \* the headers getAuthHeaders returned
    trace,          \* the requests issued and how they settled, in order
    outcome         \* what sendMessage resolved to, "throw" for a rejection

\* Sidebar, DocumentUpload and the document store of the backend.
VARIABLES
    documents,        \* the documents state of the Sidebar, as file ids
    sidebarSelected,  \* the selectedDocuments Set of the Sidebar
    loading,          \* the loading state of the Sidebar
    loadPending,      \* a loadData timer or call is pending
    deleting,         \* the handleDeleteDocument call in flight, or NoDelete
    stored,           \* the file ids the backend holds
    created,          \* the number of file ids the backend has given out
    upload,           \* DocumentUpload.handleFileUpload in flight, or Idle
    pageUpload,       \* handleDocumentUpload of the page in flight, or Idle
    lastFile,         \* the entry point and type of the last file offered
    uploadRequests    \* the types of the files uploadPDF has posted

formatVars == <<pc, text, lines, index, elements, nestedCounter, returned,
                applied, arg, keyOffset, result, message, previous>>

pageVars == <<selectedChatId, currentChatTitle, messages, isLoading, selectedDocuments,
              input, calls, sessions>>

\* The variables outside the formatting pipeline, and those outside the page.
apiVars == <<getAuthToken, apc, token, headers, trace, outcome>>
sidebarVars == <<documents, sidebarSelected, loading, loadPending, deleting, stored,
                 created, upload, pageUpload, lastFile, uploadRequests>>
appVars == <<pageVars, apiVars, sidebarVars>>
outsidePage == <<formatVars, apiVars, sidebarVars>>
outsideApi == <<formatVars, pageVars, sidebarVars>>
\* The Sidebar reports its selection to the page, which keeps it in
\* selectedDocuments.
outsideSidebar == <<formatVars, apiVars, selectedChatId, currentChatTitle, messages,
                    isLoading, input, calls, sessions>>

vars == <<formatVars, pageVars, apiVars, sidebarVars>>

inlineVars == <<applied, arg, keyOffset, result>>
parseVars == <<text, lines, index, elements, nestedCounter, returned>>
renderVars == <<message, previous>>

NoChat == 0

\* The page as useState initialises it (lines 31-37 of the page).
PageInit ==
    /\ selectedChatId = NoChat
    /\ currentChatTitle = ""
    /\ messages = <<>>
    /\ isLoading = FALSE
    /\ selectedDocuments = {}
    /\ input = <<>>
    /\ calls = EmptyBag
    /\ sessions = 0

FormatInit ==
    /\ pc = "idle"
    /\ text = <<>>
    /\ lines = <<>>
    /\ index = 0
    /\ elements = <<>>
    /\ nestedCounter = 0
    /\ returned = "none"
    /\ applied = "none"
    /\ arg = <<>>
    /\ keyOffset = 0
    /\ result = StringResult(<<>>)
    /\ message = NoMessage
    /\ previous = NoDocument

\* The api module as loaded: no getter, and no call made.
ApiInit ==
    /\ getAuthToken = FALSE
    /\ apc = "idle"
    /\ token = "uncalled"
    /\ headers = {}
    /\ trace = <<>>
    /\ outcome = "pending"

NoDelete == [id |-> 0, documents |-> {}]
Idle == [pc |-> "idle", type |-> "none"]
NoFile == [entry |-> "none", type |-> "none"]

\* The Sidebar as mounted, with its loadData timer set, and a backend that
\* holds one document.
SidebarInit ==
    /\ documents = {}
    /\ sidebarSelected = {}
    /\ loading = TRUE
    /\ loadPending = TRUE
    /\ deleting = NoDelete
    /\ stored = {1}
    /\ created = 1
    /\ upload = Idle
    /\ pageUpload = Idle
    /\ lastFile = NoFile
    /\ uploadRequests = {}

Init == FormatInit /\ PageInit /\ ApiInit /\ SidebarInit

(***************************************************************************)
(* parseMarkdown, one step per line of the forEach.                        *)
(***************************************************************************)
\* A parseMarkdown whose register is declared outside the function: a call
\* goes on from the value the held call left in it.
CallSharedRegister(t) ==
    /\ pc = "idle"
    /\ text' = t
    /\ IF t = <<>>
       THEN /\ pc' = "done"
            /\ returned' = "text"
            /\ UNCHANGED <<lines, index, elements, nestedCounter>>
       ELSE /\ pc' = "forEach"
            /\ lines' = Split(t)
            /\ elements' = <<>>
            /\ nestedCounter' = previous.nestedCounter
            /\ index' = 0
            /\ UNCHANGED returned
    /\ UNCHANGED inlineVars
    /\ UNCHANGED previous
    /\ UNCHANGED appVars

\* parseMarkdown(t) is entered: the falsy (empty) string is returned as it
\* is, any other string is split and the locals are initialised.
Call(t) ==
    /\ pc = "idle"
    /\ text' = t
    /\ IF t = <<>>
       THEN /\ pc' = "done"
            /\ returned' = "text"
            /\ UNCHANGED <<lines, index, elements, nestedCounter>>
       ELSE /\ pc' = "forEach"
            /\ lines' = Split(t)
            /\ elements' = <<>>
            /\ nestedCounter' = 0
            /\ index' = 0
            /\ UNCHANGED returned
    /\ UNCHANGED inlineVars
    /\ UNCHANGED previous
    /\ UNCHANGED appVars

\* The callback runs on the next line.
ForEachLine ==
    /\ pc = "forEach"
    /\ index < Len(lines)
    /\ \E r \in {forEachCallback(elements, nestedCounter, lines[index + 1], index)} :
          /\ elements' = r.elements
          /\ nestedCounter' = r.nestedCounter
    /\ index' = index + 1
    /\ UNCHANGED <<pc, text, lines, returned>>
    /\ UNCHANGED inlineVars
    /\ UNCHANGED renderVars
    /\ UNCHANGED appVars

\* return <div className="space-y-1">{elements}</div>
Return ==
    /\ pc = "forEach"
    /\ index = Len(lines)
    /\ pc' = "done"
    /\ returned' = "element"
    /\ UNCHANGED <<text, lines, index, elements, nestedCounter>>
    /\ UNCHANGED inlineVars
    /\ UNCHANGED renderVars
    /\ UNCHANGED appVars

\* What the rendering layer holds once the finished call is gone: the
\* first Document of a replayed text is kept, and it is noted when a call
\* on another text finished after it.
Held ==
    IF pc = "done" /\ returned = "element" /\ ~previous.kept /\ text \in ReplayTexts
    THEN [kept |-> TRUE, text |-> text, elements |-> elements,
          nestedCounter |-> nestedCounter, between |-> FALSE]
    ELSE IF pc = "done" /\ previous.kept /\ text # previous.text
    THEN [previous EXCEPT !.between = TRUE]
    ELSE previous

\* The returned value has been consumed; the locals of the call are gone.
Discard ==
    /\ pc \in {"done", "applied"}
    /\ pc' = "idle"
    /\ text' = <<>>
    /\ lines' = <<>>
    /\ index' = 0
    /\ elements' = <<>>
    /\ nestedCounter' = 0
    /\ returned' = "none"
    /\ applied' = "none"
    /\ arg' = <<>>
    /\ keyOffset' = 0
    /\ result' = StringResult(<<>>)
    /\ message' = NoMessage
    /\ previous' = Held
    /\ UNCHANGED appVars

(***************************************************************************)
(* The inline functions applied to one content or one fragment.            *)
(***************************************************************************)
Tokenize(c) ==
    /\ pc = "idle"
    /\ pc' = "applied"
    /\ applied' = "processBoldAndCitations"
    /\ arg' = c
    /\ keyOffset' = 0
    /\ result' = processBoldAndCitations(c)
    /\ UNCHANGED parseVars
    /\ UNCHANGED renderVars
    /\ UNCHANGED appVars

Extract(f, k) ==
    /\ pc = "idle"
    /\ pc' = "applied"
    /\ applied' = "processCitations"
    /\ arg' = f
    /\ keyOffset' = k
    /\ result' = processCitations(f, k)
    /\ UNCHANGED parseVars
    /\ UNCHANGED renderVars
    /\ UNCHANGED appVars

(***************************************************************************)
(* renderMessage.                                                          *)
(***************************************************************************)
\* The content of a user message is shown as it is.
ShowRaw(m) ==
    /\ pc = "idle"
    /\ pc' = "applied"
    /\ applied' = "raw"
    /\ arg' = ContentOrDefault(m.content)
    /\ keyOffset' = 0
    /\ result' = StringResult(ContentOrDefault(m.content))
    /\ UNCHANGED parseVars
    /\ UNCHANGED previous
    /\ UNCHANGED appVars

\* renderMessage(m): a user message is shown as it is, an assistant message
\* goes through parseMarkdown(message.content || 'No content').
RenderMessage(m) ==
    /\ pc = "idle"
    /\ message' = m
    /\ IF m.role = "user" THEN ShowRaw(m) ELSE Call(ContentOrDefault(m.content))

\* parseMarkdown is applied to some text; once a Document is held, to one
\* of the texts that are parsed again.
ParseSome ==
    /\ pc = "idle"
    /\ \E t \in (IF previous.kept THEN ReplayTexts ELSE Texts) : Call(t)
    /\ UNCHANGED message

\* processBoldAndCitations is applied to some content.
TokenizeSome == pc = "idle" /\ ~previous.kept /\ \E c \in Contents : Tokenize(c)

\* processCitations is applied to some fragment.
ExtractSome ==
    /\ pc = "idle"
    /\ ~previous.kept
    /\ \E f \in Fragments, k \in 0..MaxKeyOffset : Extract(f, k)

\* renderMessage is applied to some message.
RenderSome == pc = "idle" /\ \E m \in Messages : RenderMessage(m)

Next ==
    \/ ParseSome
    \/ RenderSome
    \/ ForEachLine
    \/ Return
    \/ Discard
    \/ TokenizeSome
    \/ ExtractSome

Spec == Init /\ [][Next]_vars

TypeOK ==
    /\ pc \in {"idle", "forEach", "done", "applied"}
    /\ returned \in {"none", "text", "element"}
    /\ index \in 0..Len(lines)
    /\ nestedCounter \in Nat

(***************************************************************************)
(* ChatPage: the handlers of the page, one step per synchronous stretch.   *)
(* calls is the bag of handler calls suspended at an await; the backend    *)
(* answers the pending calls in any order.                                 *)
(***************************************************************************)
\* The chats the sidebar lists: one that exists from the start and the
\* sessions created since.
ExistingChats == {1}
KnownChats == ExistingChats \cup {2 + k : k \in 0..(sessions - 1)}

\* The session id a successful createSession returns.
NewSessionId == 2 + sessions

\* What documentAPI.listDocuments can resolve to: the documents the backend
\* holds, or [] after any error.
Listings == {stored, {}}

UserMessage(c) == [chat |-> c, role |-> "user", kind |-> "sent"]
AssistantMessage(c, kind) == [chat |-> c, role |-> "assistant", kind |-> kind]

\* An entry of a loaded message list that the filter of line 100 drops.
InvalidMessage == [chat |-> 0, role |-> "none", kind |-> "invalid"]

\* What chatAPI.getSession(c) can resolve to: the session and its messages.
SessionResponses(c) ==
    {[title |-> "", document_ids |-> {}, messages |-> <<>>],
     [title |-> "stored", document_ids |-> {1, 2},
      messages |-> <<AssistantMessage(c, "stored")>>],
     [title |-> "stored", document_ids |-> {},
      messages |-> <<AssistantMessage(c, "stored"), InvalidMessage>>]}

\* chatMessages.filter(msg => msg && msg.id && msg.content !== undefined)
ValidMessages(chatMessages) == SelectSeq(chatMessages, LAMBDA m : m # InvalidMessage)

\* What chatAPI.sendMessage can resolve to: the RAG answer, the stored
\* fallback reply, neither of them, or a rejection.
SendOutcomes == {"rag", "fallback", "none", "throw"}

\* A call of handler kind suspended at the await named at, with the locals
\* it still reads: currentChatId / chatId, isFirstMessage, the session's
\* document ids and its messages.
InFlight(kind, at, chat, first) ==
    [kind |-> kind, pc |-> at, chat |-> chat, first |-> first, docs |-> {},
     loaded |-> <<>>]

Pending == BagToSet(calls)
Suspend(c) == calls (+) SetToBag({c})
Finish(c) == calls (-) SetToBag({c})
Resume(c, d) == Finish(c) (+) SetToBag({d})
MayCall == BagCardinality(calls) < MaxCalls

\* onChange of the textarea, which is disabled while isLoading.
TypeInput(v) ==
    /\ ~isLoading
    /\ v # input
    /\ input' = v
    /\ UNCHANGED <<selectedChatId, currentChatTitle, messages, isLoading,
                   selectedDocuments, calls, sessions>>
    /\ UNCHANGED outsidePage

\* handleSendMessage up to its first await: with no chat selected it awaits
\* createSession, else it appends the user message, sets isLoading and
\* awaits chatAPI.sendMessage.
handleSendMessage ==
    IF selectedChatId = NoChat
    THEN /\ calls' = Suspend(InFlight("send", "creating", NoChat, messages = <<>>))
         /\ UNCHANGED <<selectedChatId, messages, isLoading>>
    ELSE /\ calls' = Suspend(InFlight("send", "sending", selectedChatId, messages = <<>>))
         /\ messages' = Append(messages, UserMessage(selectedChatId))
         /\ isLoading' = TRUE
         /\ UNCHANGED selectedChatId

\* handleSubmit: a non-blank input is forwarded, trimmed, unless isLoading.
handleSubmit ==
    /\ MayCall
    /\ Len(messages) < MaxMessages
    /\ IF Trim(input) # <<>> /\ ~isLoading
       THEN /\ handleSendMessage
            /\ input' = <<>>
       ELSE UNCHANGED <<selectedChatId, messages, isLoading, calls, input>>
    /\ UNCHANGED <<currentChatTitle, selectedDocuments, sessions>>
    /\ UNCHANGED outsidePage

\* handleNewChat up to its await of createSession.
handleNewChat ==
    /\ MayCall
    /\ calls' = Suspend(InFlight("new", "creating", NoChat, FALSE))
    /\ UNCHANGED <<selectedChatId, currentChatTitle, messages, isLoading,
                   selectedDocuments, input, sessions>>
    /\ UNCHANGED outsidePage

\* handleChatSelect(c) up to its await of getSession.
handleChatSelect(c) ==
    /\ MayCall
    /\ selectedChatId' = c
    /\ calls' = Suspend(InFlight("select", "loading", c, FALSE))
    /\ UNCHANGED <<currentChatTitle, messages, isLoading, selectedDocuments, input,
                   sessions>>
    /\ UNCHANGED outsidePage

\* handleDocumentsSelect(documents); its backend call changes nothing here.
handleDocumentsSelect(docs) ==
    /\ docs # selectedDocuments
    /\ selectedDocuments' = docs
    /\ UNCHANGED <<selectedChatId, currentChatTitle, messages, isLoading, input, calls,
                   sessions>>
    /\ UNCHANGED outsidePage

\* createSession resolves for the pending call c: handleNewChat selects the
\* new chat and empties the page; handleSendMessage selects it, empties the
\* messages, appends the user message, sets isLoading and awaits
\* chatAPI.sendMessage.
CreateSessionResolves(c) ==
    /\ c.pc = "creating"
    /\ sessions < MaxSessions
    /\ sessions' = sessions + 1
    /\ selectedChatId' = NewSessionId
    /\ IF c.kind = "new"
       THEN /\ currentChatTitle' = ""
            /\ messages' = <<>>
            /\ calls' = Finish(c)
            /\ UNCHANGED isLoading
       ELSE /\ messages' = <<UserMessage(NewSessionId)>>
            /\ isLoading' = TRUE
            /\ calls' = Resume(c, InFlight("send", "sending", NewSessionId, c.first))
            /\ UNCHANGED currentChatTitle
    /\ UNCHANGED <<selectedDocuments, input>>
    /\ UNCHANGED outsidePage

\* createSession rejects: both handlers log the error and return.
CreateSessionRejects(c) ==
    /\ c.pc = "creating"
    /\ calls' = Finish(c)
    /\ UNCHANGED <<selectedChatId, currentChatTitle, messages, isLoading,
                   selectedDocuments, input, sessions>>
    /\ UNCHANGED outsidePage

\* getSession resolves to r for the pending handleChatSelect c: the title is
\* set; a session with documents awaits listDocuments, one without clears
\* the selection and shows the valid messages.
GetSessionResolves(c, r) ==
    /\ c.pc = "loading"
    /\ currentChatTitle' = r.title
    /\ IF r.document_ids # {}
       THEN /\ calls' = Resume(c, [c EXCEPT !.pc = "listing", !.docs = r.document_ids,
                                            !.loaded = r.messages])
            /\ UNCHANGED <<selectedDocuments, messages>>
       ELSE /\ selectedDocuments' = {}
            /\ messages' = ValidMessages(r.messages)
            /\ calls' = Finish(c)
    /\ UNCHANGED <<selectedChatId, isLoading, input, sessions>>
    /\ UNCHANGED outsidePage

\* getSession rejects: the catch of handleChatSelect empties the page.
GetSessionRejects(c) ==
    /\ c.pc = "loading"
    /\ messages' = <<>>
    /\ currentChatTitle' = ""
    /\ calls' = Finish(c)
    /\ UNCHANGED <<selectedChatId, isLoading, selectedDocuments, input, sessions>>
    /\ UNCHANGED outsidePage

\* listDocuments resolves to listed for the pending handleChatSelect c:
\* the listed documents of the session are selected and the valid messages
\* are shown.
ListDocumentsReturns(c, listed) ==
    /\ c.pc = "listing"
    /\ selectedDocuments' = listed \cap c.docs
    /\ messages' = ValidMessages(c.loaded)
    /\ calls' = Finish(c)
    /\ UNCHANGED <<selectedChatId, currentChatTitle, isLoading, input, sessions>>
    /\ UNCHANGED outsidePage

\* FinishSend without the finally block of line 195.
FinishSendNoFinally(c, added) ==
    /\ messages' = messages \o added
    /\ calls' = Finish(c)
    /\ UNCHANGED isLoading

\* The end of the pending handleSendMessage c: the assistant messages in
\* added are appended and the finally block clears isLoading.
FinishSend(c, added) ==
    /\ messages' = messages \o added
    /\ isLoading' = FALSE
    /\ calls' = Finish(c)

\* What the page appends for the outcome o of chatAPI.sendMessage.
Reply(chat, o) ==
    CASE o = "rag" -> <<AssistantMessage(chat, "rag")>>
      [] o = "fallback" -> <<AssistantMessage(chat, "fallback")>>
      [] o = "throw" -> <<AssistantMessage(chat, "apology")>>
      [] OTHER -> <<>>

\* chatAPI.sendMessage returns o for the pending handleSendMessage c: a RAG
\* answer to a first message awaits updateSessionTitle; otherwise the RAG
\* answer, the fallback reply or the apology of the catch is appended, or
\* nothing when the result holds neither ragResponse nor aiMessage.
SendMessageReturns(c, o) ==
    /\ c.pc = "sending"
    /\ IF o = "rag" /\ c.first
       THEN /\ calls' = Resume(c, [c EXCEPT !.pc = "titling"])
            /\ UNCHANGED <<messages, isLoading>>
       ELSE FinishSend(c, Reply(c.chat, o))
    /\ UNCHANGED <<selectedChatId, currentChatTitle, selectedDocuments, input, sessions>>
    /\ UNCHANGED outsidePage

\* updateSessionTitle returns for the pending handleSendMessage c: the title
\* is set when it resolved, and the RAG answer is appended either way.
UpdateTitleReturns(c, ok) ==
    /\ c.pc = "titling"
    /\ currentChatTitle' = IF ok THEN "generated" ELSE currentChatTitle
    /\ FinishSend(c, Reply(c.chat, "rag"))
    /\ UNCHANGED <<selectedChatId, selectedDocuments, input, sessions>>
    /\ UNCHANGED outsidePage

\* The texts typed into the textarea.
Inputs == {<<>>, <<" ">>, <<" ", "q">>}

Typing == \E v \in Inputs : TypeInput(v)
ChatSelectClick == \E c \in KnownChats : handleChatSelect(c)
DocumentsSelect == \E docs \in SUBSET stored : handleDocumentsSelect(docs)
CreateSessionReturns ==
    \E c \in Pending : CreateSessionResolves(c) \/ CreateSessionRejects(c)
GetSessionReturns ==
    \E c \in Pending :
        \/ c.pc = "loading" /\ \E r \in SessionResponses(c.chat) : GetSessionResolves(c, r)
        \/ GetSessionRejects(c)
ListDocumentsReturn == \E c \in Pending, listed \in Listings : ListDocumentsReturns(c, listed)
SendMessageReturn == \E c \in Pending, o \in SendOutcomes : SendMessageReturns(c, o)
UpdateTitleReturn == \E c \in Pending, ok \in BOOLEAN : UpdateTitleReturns(c, ok)

PageNext ==
    \/ Typing
    \/ handleSubmit
    \/ handleNewChat
    \/ ChatSelectClick
    \/ DocumentsSelect
    \/ CreateSessionReturns
    \/ GetSessionReturns
    \/ ListDocumentsReturn
    \/ SendMessageReturn
    \/ UpdateTitleReturn

PageSpec == Init /\ [][PageNext]_vars

\* The page with chats being created and messages being sent: the steps
\* of handleNewChat, handleSubmit and handleSendMessage and the answers to
\* them.
SendNext ==
    \/ Typing
    \/ handleSubmit
    \/ handleNewChat
    \/ CreateSessionReturns
    \/ SendMessageReturn
    \/ UpdateTitleReturn

SendSpec == Init /\ [][SendNext]_vars

(***************************************************************************)
(* services/api: setAuthTokenGetter, getAuthHeaders and                    *)
(* chatAPI.sendMessage, one step per await.                                *)
(***************************************************************************)
ContentType == <<"Content-Type", "application/json">>
Authorization == <<"Authorization", "Bearer token">>

\* How a configured getter can settle: it resolves to null, to '' or to a
\* token, or it rejects.
TokenResults == {"null", "empty", "token", "thrown"}

\* Authorization is added whenever the getter resolved, also to null or ''.
getAuthHeadersAlwaysBearer(settled) ==
    IF settled \in {"null", "empty", "token"} THEN {ContentType, Authorization}
    ELSE {ContentType}

\* getAuthHeaders, given how the getter settled ("uncalled" when there is
\* none): Authorization is added for a truthy token only, and the catch
\* swallows a rejection.
getAuthHeaders(settled) ==
    IF settled = "token" THEN {ContentType, Authorization} ELSE {ContentType}

\* The fetch of the user-message POST, issued with the headers h.
PostUser(settled) ==
    /\ token' = settled
    /\ headers' = getAuthHeaders(settled)
    /\ trace' = <<"POST user">>
    /\ apc' = "postUser"

\* The call ends: it resolves to o, or rejects when o is "throw".
Settle(event, o) ==
    /\ trace' = Append(trace, event)
    /\ apc' = "done"
    /\ outcome' = o

\* The call goes on to its next await, having seen event and issued request.
Proceed(event, request, at) ==
    /\ trace' = trace \o <<event>> \o request
    /\ apc' = at
    /\ UNCHANGED outcome

setAuthTokenGetter ==
    /\ ~getAuthToken
    /\ getAuthToken' = TRUE
    /\ UNCHANGED <<apc, token, headers, trace, outcome>>
    /\ UNCHANGED outsideApi

\* chatAPI.sendMessage up to its first await: getAuthHeaders awaits the
\* getter when there is one, else the headers are returned and the user
\* message is posted.
sendMessage ==
    /\ apc = "idle"
    /\ IF getAuthToken
       THEN apc' = "token" /\ UNCHANGED <<token, headers, trace>>
       ELSE PostUser("uncalled")
    /\ UNCHANGED <<getAuthToken, outcome>>
    /\ UNCHANGED outsideApi

\* The getter settles; getAuthHeaders returns and the user message is posted.
TokenSettles(settled) ==
    /\ apc = "token"
    /\ PostUser(settled)
    /\ UNCHANGED <<getAuthToken, outcome>>
    /\ UNCHANGED outsideApi

\* UserPostSettles without the check of ok at line 360: the json of any
\* answer is awaited.
UserPostSettlesUnchecked(r) ==
    /\ apc = "postUser"
    /\ CASE r = "ok" -> Proceed("user ok", <<>>, "userJson")
         [] r = "not ok" -> Proceed("user not ok", <<>>, "userJson")
         [] OTHER -> Settle("user rejected", "throw")
    /\ UNCHANGED <<getAuthToken, token, headers>>
    /\ UNCHANGED outsideApi

\* The user-message POST settles: ok awaits its json, not ok awaits the
\* error body, and a rejected fetch ends the call in the outer catch.
UserPostSettles(r) ==
    /\ apc = "postUser"
    /\ CASE r = "ok" -> Proceed("user ok", <<>>, "userJson")
         [] r = "not ok" -> Proceed("user not ok", <<>>, "errorJson")
         [] OTHER -> Settle("user rejected", "throw")
    /\ UNCHANGED <<getAuthToken, token, headers>>
    /\ UNCHANGED outsideApi

\* The body of the not-ok answer settles; either way the call throws.
ErrorJsonSettles(ok) ==
    /\ apc = "errorJson"
    /\ Settle(IF ok THEN "error body" ELSE "error body rejected", "throw")
    /\ UNCHANGED <<getAuthToken, token, headers>>
    /\ UNCHANGED outsideApi

\* The json of the user message settles: the RAG search is called, or the
\* call throws.
UserJsonSettles(ok) ==
    /\ apc = "userJson"
    /\ IF ok THEN Proceed("user json", <<"search">>, "search")
       ELSE Settle("user json rejected", "throw")
    /\ UNCHANGED <<getAuthToken, token, headers>>
    /\ UNCHANGED outsideApi

\* ragAPI.searchLLM settles: its answer is posted as the assistant message,
\* and a failure is caught and the fallback message posted.
SearchSettles(ok) ==
    /\ apc = "search"
    /\ IF ok THEN Proceed("search returned", <<"POST assistant">>, "postAssistant")
       ELSE Proceed("search failed", <<"POST fallback">>, "postFallback")
    /\ UNCHANGED <<getAuthToken, token, headers>>
    /\ UNCHANGED outsideApi

\* The assistant POST settles: ok or not, its json is awaited; a rejected
\* fetch is caught like a failed search.
AssistantPostSettles(r) ==
    /\ apc = "postAssistant"
    /\ CASE r = "ok" -> Proceed("assistant ok", <<>>, "assistantJson")
         [] r = "not ok" -> Proceed("assistant not ok", <<>>, "assistantJson")
         [] OTHER -> Proceed("assistant rejected", <<"POST fallback">>, "postFallback")
    /\ UNCHANGED <<getAuthToken, token, headers>>
    /\ UNCHANGED outsideApi

\* The json of the assistant message settles: the call resolves with
\* ragResponse, or the rejection is caught and the fallback posted.
AssistantJsonSettles(ok) ==
    /\ apc = "assistantJson"
    /\ IF ok THEN Settle("assistant json", "rag")
       ELSE Proceed("assistant json rejected", <<"POST fallback">>, "postFallback")
    /\ UNCHANGED <<getAuthToken, token, headers>>
    /\ UNCHANGED outsideApi

\* The fallback POST settles: ok awaits its json, not ok resolves with
\* aiMessage null, and a rejected fetch ends the call in the outer catch.
FallbackPostSettles(r) ==
    /\ apc = "postFallback"
    /\ CASE r = "ok" -> Proceed("fallback ok", <<>>, "fallbackJson")
         [] r = "not ok" -> Settle("fallback not ok", "none")
         [] OTHER -> Settle("fallback rejected", "throw")
    /\ UNCHANGED <<getAuthToken, token, headers>>
    /\ UNCHANGED outsideApi

\* The json of the fallback message settles.
FallbackJsonSettles(ok) ==
    /\ apc = "fallbackJson"
    /\ IF ok THEN Settle("fallback json", "fallback")
       ELSE Settle("fallback json rejected", "throw")
    /\ UNCHANGED <<getAuthToken, token, headers>>
    /\ UNCHANGED outsideApi

\* The caller has the result; the next call starts from scratch.
NextCall ==
    /\ apc = "done"
    /\ apc' = "idle"
    /\ token' = "uncalled"
    /\ headers' = {}
    /\ trace' = <<>>
    /\ outcome' = "pending"
    /\ UNCHANGED getAuthToken
    /\ UNCHANGED outsideApi

FetchResults == {"ok", "not ok", "rejected"}

GetterSettles == \E settled \in TokenResults : TokenSettles(settled)
UserPost == \E r \in FetchResults : UserPostSettles(r)
ErrorJson == \E ok \in BOOLEAN : ErrorJsonSettles(ok)
UserJson == \E ok \in BOOLEAN : UserJsonSettles(ok)
Search == \E ok \in BOOLEAN : SearchSettles(ok)
AssistantPost == \E r \in FetchResults : AssistantPostSettles(r)
AssistantJson == \E ok \in BOOLEAN : AssistantJsonSettles(ok)
FallbackPost == \E r \in FetchResults : FallbackPostSettles(r)
FallbackJson == \E ok \in BOOLEAN : FallbackJsonSettles(ok)

ApiNext ==
    \/ setAuthTokenGetter
    \/ sendMessage
    \/ GetterSettles
    \/ UserPost
    \/ ErrorJson
    \/ UserJson
    \/ Search
    \/ AssistantPost
    \/ AssistantJson
    \/ FallbackPost
    \/ FallbackJson
    \/ NextCall

ApiSpec == Init /\ [][ApiNext]_vars

(***************************************************************************)
(* Sidebar and DocumentUpload: the document list, its selection and the    *)
(* three ways a file reaches documentAPI.uploadPDF.                        *)
(***************************************************************************)
Pdf == "application/pdf"

\* The types of the files a user can offer; '' is what a browser reports
\* for a file it cannot type.
FileTypes == {Pdf, "text/plain", ""}

\* e.dataTransfer.files of a drop, as the types of the files.
Drops == {<<>>, <<Pdf>>, <<"text/plain">>, <<"text/plain", Pdf>>, <<"">>}

\* onDocumentsSelect(docs): the page's setSelectedDocuments(documents).
Report(docs) == selectedDocuments' = docs

\* uploadPDF(file) posts the file.
Post(type) == uploadRequests' = uploadRequests \cup {type}

\* The timer of loadData fires and documentAPI.listDocuments resolves to
\* listed, which is [] after any error.
loadData(listed) ==
    /\ loadPending
    /\ documents' = listed
    /\ loading' = FALSE
    /\ loadPending' = FALSE
    /\ UNCHANGED <<sidebarSelected, deleting, stored, created, upload, pageUpload,
                   lastFile, uploadRequests, selectedDocuments>>
    /\ UNCHANGED outsideSidebar

Toggled(documentId) ==
    IF documentId \in sidebarSelected THEN sidebarSelected \ {documentId}
    ELSE sidebarSelected \cup {documentId}

\* handleDocumentSelect(documentId): the id is toggled and the documents
\* whose id is selected are passed to the parent.
handleDocumentSelect(documentId) ==
    /\ documentId \in documents
    /\ sidebarSelected' = Toggled(documentId)
    /\ Report({doc \in documents : doc \in Toggled(documentId)})
    /\ UNCHANGED <<documents, loading, loadPending, deleting, stored, created, upload,
                   pageUpload, lastFile, uploadRequests>>
    /\ UNCHANGED outsideSidebar

\* selectAllDocuments: with as many ids selected as there are documents
\* the selection is emptied, else every document is selected.
selectAllDocuments ==
    /\ documents # {}
    /\ IF Cardinality(sidebarSelected) = Cardinality(documents)
       THEN sidebarSelected' = {} /\ Report({})
       ELSE sidebarSelected' = documents /\ Report(documents)
    /\ UNCHANGED <<documents, loading, loadPending, deleting, stored, created, upload,
                   pageUpload, lastFile, uploadRequests>>
    /\ UNCHANGED outsideSidebar

\* handleDeleteDocument(fileId) up to its await, one call at a time; the
\* call keeps the documents of its render.
handleDeleteDocument(fileId) ==
    /\ deleting = NoDelete
    /\ fileId \in documents
    /\ deleting' = [id |-> fileId, documents |-> documents]
    /\ UNCHANGED <<documents, sidebarSelected, loading, loadPending, stored, created,
                   upload, pageUpload, lastFile, uploadRequests, selectedDocuments>>
    /\ UNCHANGED outsideSidebar

\* documentAPI.deleteDocument settles: on success the document leaves the
\* backend and the documents the call kept, less the deleted one, are set.
DeleteDocumentReturns(ok) ==
    /\ deleting # NoDelete
    /\ deleting' = NoDelete
    /\ IF ok
       THEN /\ stored' = stored \ {deleting.id}
            /\ documents' = deleting.documents \ {deleting.id}
       ELSE UNCHANGED <<stored, documents>>
    /\ UNCHANGED <<sidebarSelected, loading, loadPending, created, upload, pageUpload,
                   lastFile, uploadRequests, selectedDocuments>>
    /\ UNCHANGED outsideSidebar

\* DocumentUpload.handleFileUpload(file), one call at a time: a file that
\* is not a PDF is refused, a PDF is posted.
handleFileUpload(entry, type) ==
    /\ upload = Idle
    /\ lastFile' = [entry |-> entry, type |-> type]
    /\ IF type # Pdf
       THEN UNCHANGED <<upload, uploadRequests>>
       ELSE upload' = [pc |-> "uploading", type |-> type] /\ Post(type)
    /\ UNCHANGED <<documents, sidebarSelected, loading, loadPending, deleting, stored,
                   created, pageUpload, selectedDocuments>>
    /\ UNCHANGED outsideSidebar

\* handleDrop: the first dropped file, if any, is handed on.
handleDrop(files) ==
    /\ files # <<>>
    /\ handleFileUpload("drop", files[1])

\* handleFileSelect of the upload page's file picker.
handleFileSelect(type) == handleFileUpload("picker", type)

\* Sidebar.handleFileUpload that hands any file to the page.
SidebarFileUploadUnchecked(type) ==
    /\ pageUpload = Idle
    /\ lastFile' = [entry |-> "sidebar", type |-> type]
    /\ pageUpload' = [pc |-> "first", type |-> type]
    /\ Post(type)
    /\ loadPending' = TRUE
    /\ UNCHANGED <<documents, sidebarSelected, loading, deleting, stored, created, upload,
                   selectedDocuments>>
    /\ UNCHANGED outsideSidebar

\* Sidebar.handleFileUpload, one upload of the page at a time: a PDF goes to
\* onDocumentUpload, whose handleDocumentUpload posts it, and loadData is
\* set to run; any other file is ignored.
SidebarFileUpload(type) ==
    /\ pageUpload = Idle
    /\ lastFile' = [entry |-> "sidebar", type |-> type]
    /\ IF type = Pdf
       THEN /\ pageUpload' = [pc |-> "first", type |-> type]
            /\ Post(type)
            /\ loadPending' = TRUE
       ELSE UNCHANGED <<pageUpload, uploadRequests, loadPending>>
    /\ UNCHANGED <<documents, sidebarSelected, loading, deleting, stored, created, upload,
                   selectedDocuments>>
    /\ UNCHANGED outsideSidebar

\* The backend answers an upload: ok stores the file under a new id.
Store(ok) ==
    IF ok THEN created' = created + 1 /\ stored' = stored \cup {created + 1}
    ELSE UNCHANGED <<created, stored>>

\* The uploadPDF of DocumentUpload settles: after the first the file is
\* posted again by ragAPI.processDocument, after the second or a failure
\* the call ends.
UploadReturns(ok) ==
    /\ upload # Idle
    /\ ok => created < MaxDocuments
    /\ Store(ok)
    /\ IF ok /\ upload.pc = "uploading"
       THEN upload' = [upload EXCEPT !.pc = "processing"] /\ Post(upload.type)
       ELSE upload' = Idle /\ UNCHANGED uploadRequests
    /\ UNCHANGED <<documents, sidebarSelected, loading, loadPending, deleting, pageUpload,
                   lastFile, selectedDocuments>>
    /\ UNCHANGED outsideSidebar

\* The uploadPDF of handleDocumentUpload settles: after the first the file
\* is posted a second time, after the second or a failure the call ends.
PageUploadReturns(ok) ==
    /\ pageUpload # Idle
    /\ ok => created < MaxDocuments
    /\ Store(ok)
    /\ IF ok /\ pageUpload.pc = "first"
       THEN pageUpload' = [pageUpload EXCEPT !.pc = "second"] /\ Post(pageUpload.type)
       ELSE pageUpload' = Idle /\ UNCHANGED uploadRequests
    /\ UNCHANGED <<documents, sidebarSelected, loading, loadPending, deleting, upload,
                   lastFile, selectedDocuments>>
    /\ UNCHANGED outsideSidebar

LoadData == \E listed \in Listings : loadData(listed)
DocumentClick == \E documentId \in documents : handleDocumentSelect(documentId)
DeleteClick == \E fileId \in documents : handleDeleteDocument(fileId)
DeleteReturns == \E ok \in BOOLEAN : DeleteDocumentReturns(ok)
Drop == \E files \in Drops : handleDrop(files)
FileSelect == \E type \in FileTypes : handleFileSelect(type)
SidebarFileInput == \E type \in FileTypes : SidebarFileUpload(type)
UploadSettles == \E ok \in BOOLEAN : UploadReturns(ok)
PageUploadSettles == \E ok \in BOOLEAN : PageUploadReturns(ok)

SidebarNext ==
    \/ LoadData
    \/ DocumentClick
    \/ selectAllDocuments
    \/ DeleteClick
    \/ DeleteReturns
    \/ Drop
    \/ FileSelect
    \/ SidebarFileInput
    \/ UploadSettles
    \/ PageUploadSettles

SidebarSpec == Init /\ [][SidebarNext]_vars

(***************************************************************************)
(* Vocabulary of the properties.                                           *)
(***************************************************************************)
\* The logical span sequence of a returned value: its parts, or the one
\* plain text the returned string stands for.
Spans(r) == IF r.isArray THEN r.parts ELSE <<TextPart(r.text)>>

\* The spans without their rendering keys.
Sem(r) == [i \in 1..Len(Spans(r)) |-> <<Spans(r)[i].type, Spans(r)[i].text>>]

Text(s) == <<"text", s>>
Bold(s) == <<"bold", s>>
Citation(s) == <<"citation", s>>

\* The spans written back as text, a citation as its bracketed number.
RECURSIVE Unparse(_)
Unparse(sem) ==
    IF sem = <<>> THEN <<>>
    ELSE (IF Head(sem)[1] = "citation" THEN <<"[">> \o Head(sem)[2] \o <<"]">>
          ELSE Head(sem)[2]) \o Unparse(Tail(sem))

Newlines(s) == {p \in 1..Len(s) : s[p] = NL}

\* The i-th line of s (i from 1): the characters between the (i-1)-th and
\* the i-th newline.
PieceOf(s, i) ==
    LET nth(k) == CHOOSE p \in Newlines(s) :
                      Cardinality({q \in Newlines(s) : q < p}) = k - 1
        first == IF i = 1 THEN 1 ELSE nth(i - 1) + 1
        last == IF i = Cardinality(Newlines(s)) + 1 THEN Len(s) ELSE nth(i) - 1
    IN  SubSeq(s, first, last)

\* Some opening pair of s is followed by a closing pair.
HasClosedPair(s) ==
    \E i \in 0..(Len(s) - 1), q \in 0..(Len(s) - 1) :
        q >= i + 2 /\ StartsWith(s, i, <<"*", "*">>) /\ StartsWith(s, q, <<"*", "*">>)

HasPair(s) == \E i \in 0..(Len(s) - 1) : StartsWith(s, i, <<"*", "*">>)

\* The 0-based positions at which a citation marker starts: an open
\* bracket, one or more digits and a close bracket.
Markers(s) ==
    {i \in 0..(Len(s) - 1) :
        /\ s[i + 1] = "["
        /\ \E n \in 1..(Len(s) - i - 2) :
              /\ \A j \in 1..n : IsDigit(s[i + 1 + j])
              /\ s[i + n + 2] = "]"}

\* The elements that are nested numbered items among elements[from..to].
NestedIn(from, to) == {i \in from..to : elements[i].kind = "NestedNumberedItem"}

HeadersIn(from, to) == {i \in from..to : elements[i].kind = "BulletHeader"}

BlockKinds ==
    {"Spacer", "BulletHeader", "NestedNumberedItem", "BulletItem", "PlusBulletItem",
     "NumberedItem", "Header", "Paragraph"}

MatchesSomeMarkerRule(t) ==
    \/ MatchesBulletHeader(t)
    \/ MatchesNestedBullet(t)
    \/ MatchesBullet(t)
    \/ MatchesPlusBullet(t)
    \/ MatchesNumbered(t)
    \/ MatchesBoldHeader(t)

Parsing == pc \in {"forEach", "done"} /\ returned # "text"

(***************************************************************************)
(* C1: parseMarkdown emits exactly one block per input line, the lines     *)
(* being the pieces between newlines with blank and trailing ones          *)
(* included, and block i is built from line i; the empty string is         *)
(* returned as it is, with no block.                                       *)
(***************************************************************************)
C1_OneBlockPerLine ==
    /\ Parsing => Len(elements) = index
    /\ (pc = "done" /\ returned = "element") =>
          Len(elements) = Cardinality(Newlines(text)) + 1
    /\ (pc = "done" /\ returned = "text") => (text = <<>> /\ elements = <<>>)
    /\ Parsing =>
          \A i \in 1..Len(elements) :
              LET t == Trim(PieceOf(text, i))
              IN  /\ elements[i].key = i - 1
                  /\ elements[i].kind = KindOf(t)
                  /\ elements[i].children =
                        IF t = <<>> THEN ArrayResult(<<>>)
                        ELSE processBoldAndCitations(ContentOf(KindOf(t), t))

\* A finished parse of a text with a blank line inside and a trailing one.
C1_Witness ==
    /\ pc = "done"
    /\ returned = "element"
    /\ Len(elements) = 4
    /\ elements[1].kind = "BulletItem"
    /\ elements[2].kind = "Spacer"
    /\ elements[3].kind = "Paragraph"
    /\ elements[4].kind = "Spacer"

(***************************************************************************)
(* C2: parsing the string of exactly two newline characters yields         *)
(* exactly two Spacer blocks.                                              *)
(***************************************************************************)
C2_TwoNewlinesTwoSpacers ==
    (pc = "done" /\ text = <<NL, NL>>) =>
        /\ Len(elements) = 2
        /\ \A i \in 1..Len(elements) : elements[i].kind = "Spacer"

\* C2 as amended: the string of exactly two newline characters yields
\* exactly three Spacer blocks, one per piece around the two newlines.
C2_TwoNewlinesThreeSpacers ==
    (pc = "done" /\ text = <<NL, NL>>) =>
        /\ returned = "element"
        /\ Len(elements) = 3
        /\ \A i \in 1..Len(elements) :
              /\ elements[i].kind = "Spacer"
              /\ elements[i].children = ArrayResult(<<>>)

C2_Witness == pc = "done" /\ text = <<NL, NL>> /\ Len(elements) = 3

(***************************************************************************)
(* C3: a nested numbered item displays the register after it was           *)
(* incremented by one: with no BulletHeader before it, the i-th nested     *)
(* line displays i.                                                        *)
(***************************************************************************)
C3_NestedCountsFromOne ==
    Parsing =>
        /\ \A j \in 1..Len(elements) :
              (elements[j].kind = "NestedNumberedItem" /\ HeadersIn(1, j) = {}) =>
                  elements[j].number = Cardinality(NestedIn(1, j))
        /\ HeadersIn(1, Len(elements)) = {} =>
              nestedCounter = Cardinality(NestedIn(1, Len(elements)))

\* Two nested lines in a row, no header: the second displays 2.
C3_Witness ==
    /\ pc = "done"
    /\ Len(elements) >= 2
    /\ HeadersIn(1, Len(elements)) = {}
    /\ elements[1].kind = "NestedNumberedItem"
    /\ elements[1].number = 1
    /\ elements[2].kind = "NestedNumberedItem"
    /\ elements[2].number = 2

(***************************************************************************)
(* C4: every BulletHeader resets the register to 0: a nested item after a  *)
(* header displays its position among the nested items since the last      *)
(* header, so the first one displays 1 however many nested items came      *)
(* before that header.                                                     *)
(***************************************************************************)
C4_HeaderResetsRegister ==
    Parsing =>
        /\ \A j \in 1..Len(elements) :
              (elements[j].kind = "NestedNumberedItem" /\ HeadersIn(1, j) # {}) =>
                  LET h == CHOOSE x \in HeadersIn(1, j) : \A y \in HeadersIn(1, j) : y <= x
                  IN  elements[j].number = Cardinality(NestedIn(h + 1, j))
        /\ (elements # <<>> /\ elements[Len(elements)].kind = "BulletHeader") =>
              nestedCounter = 0

\* Two header groups with one nested line each: both display 1.
C4_Witness ==
    /\ pc = "done"
    /\ Len(elements) = 4
    /\ elements[1].kind = "BulletHeader"
    /\ elements[2].kind = "NestedNumberedItem"
    /\ elements[2].number = 1
    /\ elements[3].kind = "BulletHeader"
    /\ elements[4].kind = "NestedNumberedItem"
    /\ elements[4].number = 1

(***************************************************************************)
(* C5: for every fragment handed to processCitations, a fragment that is   *)
(* exactly one marker included, every open bracket, digits, close bracket  *)
(* becomes a Citation span carrying that number.                           *)
(***************************************************************************)
C5_EveryMarkerBecomesCitation ==
    (pc = "applied" /\ applied = "processCitations") =>
        LET cited == SelectSeq(Sem(result), LAMBDA x : x[1] = "citation")
        IN  /\ Len(cited) = Cardinality(Markers(arg))
            /\ \A k \in 1..Len(cited) :
                  \E i \in Markers(arg) :
                      /\ Cardinality({j \in Markers(arg) : j < i}) = k - 1
                      /\ cited[k][2] = Slice(arg, i + 1, i + 1 + DigitRun(arg, i + 1))

(***************************************************************************)
(* C6: citation extraction loses and reorders nothing: the spans of a      *)
(* fragment, each Citation(N) written back as [N], concatenate to the      *)
(* fragment, with the text between markers untrimmed; "See [1] and [2]     *)
(* for details" yields Text("See "), Citation(1), Text(" and "),           *)
(* Citation(2), Text(" for details").                                      *)
(***************************************************************************)
C6_ExtractionPreservesText ==
    (pc = "applied" /\ applied = "processCitations") =>
        /\ Unparse(Sem(result)) = arg
        /\ arg = ContentSeeCitations =>
              Sem(result) = <<Text(<<"S", "e", "e", " ">>), Citation(<<"1">>),
                              Text(<<" ", "a", "n", "d", " ">>), Citation(<<"2">>),
                              Text(<<" ", "f", "o", "r", " ", "d", "e", "t", "a", "i",
                                     "l", "s">>)>>

C6_Witness ==
    /\ pc = "applied"
    /\ applied = "processCitations"
    /\ arg = ContentSeeCitations
    /\ Len(Spans(result)) = 5

(***************************************************************************)
(* C7: a line made of a bullet marker, a bold span **X**, one colon and    *)
(* trailing plain text T yields a BulletHeader whose spans are exactly     *)
(* Bold(X with the colon), Text(T): one colon right after the closing pair *)
(* is folded into the bold span; the register is 0 afterwards.             *)
(***************************************************************************)
\* t is marker, whitespace, ** at a, X, ** at b, a colon and the tail T,
\* where the closing pair at b is the first one after the opening pair and
\* T is plain text: not empty, no citation marker, no bold pair.
IsHeaderLine(t, a, b) ==
    /\ Len(t) >= 1
    /\ IsBulletMarker(t[1])
    /\ a = 1 + SpaceRun(t, 1)
    /\ StartsWith(t, a, <<"*", "*">>)
    /\ b >= a + 2
    /\ StartsWith(t, b, <<"*", "*">>)
    /\ \A q \in (a + 2)..(b - 1) : ~StartsWith(t, q, <<"*", "*">>)
    /\ \A j \in (a + 2)..(b - 1) : ~IsLineTerminator(CharAt(t, j))
    /\ b + 3 < Len(t)
    /\ CharAt(t, b + 2) = ":"
    /\ Markers(SliceFrom(t, b + 3)) = {}
    /\ ~HasClosedPair(SliceFrom(t, b + 3))

C7_BulletHeaderFoldsColon ==
    Parsing =>
        \A i \in 1..Len(elements) :
            LET t == Trim(PieceOf(text, i))
            IN  \A a \in 1..Len(t), b \in 1..Len(t) :
                    IsHeaderLine(t, a, b) =>
                        /\ elements[i].kind = "BulletHeader"
                        /\ Sem(elements[i].children) =
                              <<Bold(Slice(t, a + 2, b) \o <<":">>),
                                Text(SliceFrom(t, b + 3))>>
                        /\ (i = Len(elements) => nestedCounter = 0)

\* "* **Direct Answer**: Paris" parsed after nothing else.
C7_Witness ==
    /\ pc = "done"
    /\ text = TextDirectAnswer
    /\ Len(elements) = 1
    /\ elements[1].kind = "BulletHeader"
    /\ Sem(elements[1].children) =
          <<Bold(<<"D", "i", "r", "e", "c", "t", " ", "A", "n", "s", "w", "e", "r", ":">>),
            Text(<<" ", "P", "a", "r", "i", "s">>)>>
    /\ nestedCounter = 0

(***************************************************************************)
(* C8: an opening bold pair with no later closing pair produces no Bold    *)
(* span and does not abort: the delimiter characters stay in the text, and *)
(* "Unclosed **bold" yields exactly Text("Unclosed **bold").               *)
(***************************************************************************)
C8_UnclosedBoldStaysText ==
    (pc = "applied" /\ applied = "processBoldAndCitations") =>
        /\ (HasPair(arg) /\ ~HasClosedPair(arg)) =>
              /\ \A k \in 1..Len(Sem(result)) : Sem(result)[k][1] # "bold"
              /\ Unparse(Sem(result)) = arg
        /\ arg = ContentUnclosedBold => Sem(result) = <<Text(ContentUnclosedBold)>>

C8_Witness ==
    /\ pc = "applied"
    /\ applied = "processBoldAndCitations"
    /\ arg = ContentUnclosedBold
    /\ Sem(result) = <<Text(ContentUnclosedBold)>>

(***************************************************************************)
(* C9: content with no bold span and no citation marker comes back as one  *)
(* plain Text span equal to the whole content, not split and with no empty *)
(* fragment; the line "No markers here." yields one Paragraph with that    *)
(* single Text span.                                                       *)
(***************************************************************************)
IsPlain(c) == ~HasClosedPair(c) /\ Markers(c) = {}

C9_PlainContentIsOneText ==
    /\ (pc = "applied" /\ applied = "processBoldAndCitations" /\ IsPlain(arg)) =>
          Sem(result) = <<Text(arg)>>
    /\ Parsing =>
          \A i \in 1..Len(elements) :
              LET t == Trim(PieceOf(text, i))
              IN  (elements[i].kind = "Paragraph" /\ IsPlain(t)) =>
                      /\ t # <<>>
                      /\ Sem(elements[i].children) = <<Text(t)>>
    /\ (pc = "done" /\ text = TextNoMarkers) =>
          /\ Len(elements) = 1
          /\ elements[1].kind = "Paragraph"
          /\ Sem(elements[1].children) = <<Text(TextNoMarkers)>>

C9_Witness ==
    /\ pc = "done"
    /\ text = TextNoMarkers
    /\ Len(elements) = 1
    /\ elements[1].kind = "Paragraph"

(***************************************************************************)
(* C10: the parser is total: every call ends and returns, no error state   *)
(* is reachable, and a non-empty line that matches no marker rule becomes  *)
(* a Paragraph.  Termination is stated by its variant: the lines left.     *)
(***************************************************************************)
C10_NoUnparseableLine ==
    /\ pc \in {"idle", "forEach", "done", "applied"}
    /\ pc = "done" => returned \in {"text", "element"}
    /\ pc = "forEach" => (index < Len(lines) \/ index = Len(lines))
    /\ Parsing =>
          \A i \in 1..Len(elements) :
              LET t == Trim(PieceOf(text, i))
              IN  /\ elements[i].kind \in BlockKinds
                  /\ (t # <<>> /\ ~MatchesSomeMarkerRule(t)) =>
                        elements[i].kind = "Paragraph"

\* A step of a running call consumes one line or ends the call.
C10_Progress ==
    pc = "forEach" =>
        \/ pc' = "forEach" /\ lines' = lines /\ index' = index + 1
        \/ pc' = "done" /\ index = Len(lines) /\ returned' = "element"

\* While a call runs a step is always possible, every step brings the end
\* nearer and the call ends by returning; no line is left without a block.
C10_ParserIsTotal ==
    /\ [](C10_NoUnparseableLine)
    /\ [][C10_Progress]_vars

\* A finished parse in which a line that starts with a marker character
\* but matches no rule became a Paragraph.
C10_Witness ==
    /\ pc = "done"
    /\ returned = "element"
    /\ text = <<"-", NL, "*">>
    /\ elements[1].kind = "Paragraph"
    /\ elements[2].kind = "Paragraph"

(***************************************************************************)
(* C11: parsing depends only on the input string: a call on a text whose   *)
(* Document an earlier call returned, whatever calls came before or in     *)
(* between, builds the same Document block by block, because every call    *)
(* starts with an empty element list and the register at 0.                *)
(***************************************************************************)
C11_SameDocument ==
    (Parsing /\ previous.kept /\ text = previous.text) =>
        /\ elements = SubSeq(previous.elements, 1, index)
        /\ pc = "done" => elements = previous.elements

\* Whatever the state before a call, the call starts from fresh locals.
C11_FreshLocals ==
    (pc = "idle" /\ pc' = "forEach") =>
        /\ nestedCounter' = 0
        /\ elements' = <<>>
        /\ index' = 0

C11_ParseDependsOnTextOnly ==
    /\ [](C11_SameDocument)
    /\ [][C11_FreshLocals]_vars

\* A text with two nested items parsed a second time after a call on
\* another text: the same numbers 1 and 2 again.
C11_Witness ==
    /\ pc = "done"
    /\ previous.kept
    /\ previous.between
    /\ text = previous.text
    /\ previous.nestedCounter = 2
    /\ elements = previous.elements
    /\ Len(elements) = 2
    /\ elements[2].kind = "NestedNumberedItem"
    /\ elements[2].number = 2

(***************************************************************************)
(* C12: a text made of whitespace only yields Spacer blocks only, one per  *)
(* line and each with no span; the empty string yields no block at all.    *)
(***************************************************************************)
IsBlank(t) == \A p \in 1..Len(t) : IsSpace(t[p])

C12_BlankTextOnlySpacers ==
    (pc = "done" /\ IsBlank(text)) =>
        /\ text = <<>> => (returned = "text" /\ elements = <<>>)
        /\ text # <<>> =>
              /\ returned = "element"
              /\ Len(elements) = Cardinality(Newlines(text)) + 1
              /\ \A i \in 1..Len(elements) :
                    /\ elements[i].kind = "Spacer"
                    /\ Spans(elements[i].children) = <<>>

\* A tab, a newline and a carriage return: two Spacers.
C12_Witness ==
    /\ pc = "done"
    /\ text = <<TAB, NL, CR>>
    /\ Len(elements) = 2
    /\ elements[1].kind = "Spacer"
    /\ elements[2].kind = "Spacer"

(***************************************************************************)
(* C13: when the content of an assistant message is absent or empty,       *)
(* renderMessage hands parseMarkdown the empty string, so the Document of  *)
(* such a message has no block other than a Spacer.                        *)
(***************************************************************************)
IsFalsy(content) == ~content.defined \/ content.value = <<>>

C13_AbsentContentParsesEmpty ==
    (message.role = "assistant" /\ IsFalsy(message.content) /\ pc \in {"forEach", "done"}) =>
        /\ text = <<>>
        /\ \A i \in 1..Len(elements) : elements[i].kind = "Spacer"

(***************************************************************************)
(* C14: brackets around anything but a non-empty run of digits ("[note]",  *)
(* "[]", "[1a]") never produce a Citation span: every Citation span        *)
(* carries the digits of a marker of the text, and the other brackets stay *)
(* with their contents in the Text spans, unchanged.                       *)
(***************************************************************************)
IsNumber(s) == s # <<>> /\ \A p \in 1..Len(s) : IsDigit(s[p])

CitationsOf(r) == SelectSeq(Sem(r), LAMBDA x : x[1] = "citation")

C14_OnlyDigitsAreCited ==
    (pc = "applied" /\ applied \in {"processCitations", "processBoldAndCitations"}) =>
        /\ \A k \in 1..Len(CitationsOf(result)) : IsNumber(CitationsOf(result)[k][2])
        /\ Len(CitationsOf(result)) <= Cardinality(Markers(arg))
        /\ applied = "processCitations" => Unparse(Sem(result)) = arg
        /\ arg = ContentNote => Sem(result) = <<Text(ContentNote)>>
        /\ arg = ContentNoteCited =>
              Sem(result) = <<Text(<<"[", "a", "]">>), Citation(<<"1">>)>>

\* "[a][1]" as a fragment: the first brackets stay text, the second are cited.
C14_Witness ==
    /\ pc = "applied"
    /\ applied = "processCitations"
    /\ arg = ContentNoteCited
    /\ Sem(result) = <<Text(<<"[", "a", "]">>), Citation(<<"1">>)>>

(***************************************************************************)
(* C15: Spacer, BulletItem, PlusBulletItem, NumberedItem, Header and       *)
(* Paragraph lines leave the register unchanged: a nested item that        *)
(* follows any number of such lines after another nested item displays     *)
(* the number after that item's, it does not restart.                      *)
(***************************************************************************)
TransparentKinds ==
    {"Spacer", "BulletItem", "PlusBulletItem", "NumberedItem", "Header", "Paragraph"}

C15_Continues ==
    Parsing =>
        \A i \in 1..Len(elements), j \in 1..Len(elements) :
            (/\ i < j
             /\ elements[i].kind = "NestedNumberedItem"
             /\ elements[j].kind = "NestedNumberedItem"
             /\ \A k \in (i + 1)..(j - 1) : elements[k].kind \in TransparentKinds) =>
                elements[j].number = elements[i].number + 1

\* A step of the forEach that pushes a block of one of these kinds.
C15_Transparent ==
    (/\ pc = "forEach"
     /\ index' = index + 1
     /\ elements'[index'].kind \in TransparentKinds) =>
        nestedCounter' = nestedCounter

C15_OtherBlocksKeepRegister ==
    /\ [](C15_Continues)
    /\ [][C15_Transparent]_vars

\* A nested item, a Header, a Spacer and a nested item: 1 and 2.
C15_Witness ==
    /\ pc = "done"
    /\ Len(elements) = 4
    /\ elements[1].kind = "NestedNumberedItem"
    /\ elements[1].number = 1
    /\ elements[2].kind = "Header"
    /\ elements[3].kind = "Spacer"
    /\ elements[4].kind = "NestedNumberedItem"
    /\ elements[4].number = 2

(***************************************************************************)
(* C16: each line gets the block kind of the first rule that matches it,   *)
(* in the order Spacer, BulletHeader, NestedNumberedItem, BulletItem,      *)
(* PlusBulletItem, NumberedItem, Header, Paragraph; a line that matches    *)
(* the BulletHeader pattern is never a BulletItem or a NestedNumberedItem. *)
(***************************************************************************)
RuleOrder ==
    <<"Spacer", "BulletHeader", "NestedNumberedItem", "BulletItem", "PlusBulletItem",
      "NumberedItem", "Header", "Paragraph">>

RuleMatches(k, t) ==
    CASE k = 1 -> t = <<>>
      [] k = 2 -> MatchesBulletHeader(t)
      [] k = 3 -> MatchesNestedBullet(t)
      [] k = 4 -> MatchesBullet(t)
      [] k = 5 -> MatchesPlusBullet(t)
      [] k = 6 -> MatchesNumbered(t)
      [] k = 7 -> MatchesBoldHeader(t)
      [] OTHER -> TRUE

C16_FirstMatchWins ==
    Parsing =>
        \A i \in 1..Len(elements) :
            LET t == Trim(PieceOf(text, i))
            IN  /\ \A k \in 1..8 :
                      (RuleMatches(k, t) /\ \A h \in 1..(k - 1) : ~RuleMatches(h, t)) =>
                          elements[i].kind = RuleOrder[k]
                /\ MatchesBulletHeader(t) =>
                      elements[i].kind \notin {"BulletItem", "NestedNumberedItem"}

\* "* **Direct Answer**: Paris" also matches the nested and the plain
\* bullet patterns and is a BulletHeader.
C16_Witness ==
    /\ pc = "done"
    /\ text = TextDirectAnswer
    /\ MatchesBulletHeader(text)
    /\ MatchesNestedBullet(text)
    /\ MatchesBullet(text)
    /\ Len(elements) = 1
    /\ elements[1].kind = "BulletHeader"

(***************************************************************************)
(* C17: a line is a Header exactly when it has no bullet prefix and the    *)
(* whole trimmed line is one single bold span, optionally followed by a    *)
(* colon, and nothing else; a line with any text outside that one bold     *)
(* span is not a Header.                                                   *)
(***************************************************************************)
\* t is an opening pair, a span that ends at the first closing pair after
\* it, and then nothing or one colon.
IsSingleBoldLine(t) ==
    /\ StartsWith(t, 0, <<"*", "*">>)
    /\ \E q \in 2..(Len(t) - 2) :
          /\ StartsWith(t, q, <<"*", "*">>)
          /\ \A j \in 2..(q - 1) :
                ~StartsWith(t, j, <<"*", "*">>) /\ ~IsLineTerminator(CharAt(t, j))
          /\ SliceFrom(t, q + 2) \in {<<>>, <<":">>}

HasBulletPrefix(t) ==
    MatchesBulletHeader(t) \/ MatchesNestedBullet(t) \/ MatchesBullet(t)

C17_HeaderIffSingleBold ==
    Parsing =>
        \A i \in 1..Len(elements) :
            LET t == Trim(PieceOf(text, i))
            IN  elements[i].kind = "Header" <=>
                    (IsSingleBoldLine(t) /\ ~HasBulletPrefix(t))

\* "**a** b **c**" as a line: text between two bold spans, and a Header.
C17_TwoBoldsHeader ==
    /\ pc = "done"
    /\ text = ContentTwoBolds
    /\ elements[1].kind = "Header"
    /\ Sem(elements[1].children) = <<Bold(<<"a">>), Text(<<" ", "b", " ">>), Bold(<<"c">>)>>

(***************************************************************************)
(* C18: every line that starts with a single bullet marker, one of '*',   *)
(* U+2022 and '-', and matches neither the BulletHeader nor the Nested-     *)
(* NumberedItem rule                                                       *)
(* is a BulletItem, with the marker stripped from its content.             *)
(***************************************************************************)
\* c is what is left of t without its first character and the whitespace
\* after it.
IsAfterMarker(c, t) ==
    \E n \in 0..(Len(t) - 1) :
        /\ \A j \in 1..n : IsSpace(CharAt(t, j))
        /\ (n + 1 = Len(t) \/ ~IsSpace(CharAt(t, n + 1)))
        /\ c = SliceFrom(t, n + 1)

C18_MarkerLineIsBulletItem ==
    Parsing =>
        \A i \in 1..Len(elements) :
            LET t == Trim(PieceOf(text, i))
            IN  (/\ t # <<>>
                 /\ IsBulletMarker(CharAt(t, 0))
                 /\ (Len(t) = 1 \/ ~IsBulletMarker(CharAt(t, 1)))
                 /\ ~MatchesBulletHeader(t)
                 /\ ~MatchesNestedBullet(t)) =>
                    /\ elements[i].kind = "BulletItem"
                    /\ \E c \in {SliceFrom(t, n) : n \in 1..Len(t)} :
                          /\ IsAfterMarker(c, t)
                          /\ elements[i].children = processBoldAndCitations(c)

\* C18 as amended: every line that starts with a bullet marker followed by
\* a whitespace character and matches neither the BulletHeader nor the
\* NestedNumberedItem rule is a BulletItem, with the marker and the
\* whitespace after it stripped from its content.
C18_MarkerSpaceLineIsBulletItem ==
    Parsing =>
        \A i \in 1..Len(elements) :
            LET t == Trim(PieceOf(text, i))
            IN  (/\ Len(t) >= 2
                 /\ IsBulletMarker(CharAt(t, 0))
                 /\ IsSpace(CharAt(t, 1))
                 /\ ~MatchesBulletHeader(t)
                 /\ ~MatchesNestedBullet(t)) =>
                    /\ elements[i].kind = "BulletItem"
                    /\ \E c \in {SliceFrom(t, n) : n \in 1..Len(t)} :
                          /\ IsAfterMarker(c, t)
                          /\ elements[i].children = processBoldAndCitations(c)

\* " - a": a BulletItem whose content is "a".
C18_Witness ==
    /\ pc = "done"
    /\ text = LineBullet
    /\ Len(elements) = 1
    /\ elements[1].kind = "BulletItem"
    /\ Sem(elements[1].children) = <<Text(<<"a">>)>>

(***************************************************************************)
(* C19: every line that starts with a bullet marker followed immediately   *)
(* by a second bullet marker, and is not a BulletHeader, is a              *)
(* NestedNumberedItem, increments the register, and has both leading       *)
(* markers stripped from its content.                                      *)
(***************************************************************************)
\* c is what is left of t without the marker at 0-based position p and the
\* whitespace after it.
IsAfterMarkerAt(c, t, p) ==
    \E n \in 0..(Len(t) - p - 1) :
        /\ \A j \in (p + 1)..(p + n) : IsSpace(CharAt(t, j))
        /\ (p + n + 1 = Len(t) \/ ~IsSpace(CharAt(t, p + n + 1)))
        /\ c = SliceFrom(t, p + n + 1)

\* The i-th block is a nested item built from what follows the second
\* marker of t, at 0-based position p.
IsNestedItemOf(i, t, p) ==
    /\ elements[i].kind = "NestedNumberedItem"
    /\ elements[i].number >= 1
    /\ \E c \in {SliceFrom(t, n) : n \in 1..Len(t)} :
          /\ IsAfterMarkerAt(c, t, p)
          /\ elements[i].children = processBoldAndCitations(c)

C19_AdjacentMarkersNested ==
    Parsing =>
        \A i \in 1..Len(elements) :
            LET t == Trim(PieceOf(text, i))
            IN  (/\ Len(t) >= 2
                 /\ IsBulletMarker(CharAt(t, 0))
                 /\ IsBulletMarker(CharAt(t, 1))
                 /\ ~MatchesBulletHeader(t)) =>
                    IsNestedItemOf(i, t, 1)

\* C19 as amended: every line that starts with a bullet marker, one or
\* more whitespace characters and a second bullet marker, and is not a
\* BulletHeader, is a NestedNumberedItem, increments the register, and has
\* both leading markers and the whitespace after each stripped from its
\* content.
C19_SpacedMarkersNested ==
    Parsing =>
        \A i \in 1..Len(elements) :
            LET t == Trim(PieceOf(text, i))
            IN  \A p \in 2..(Len(t) - 1) :
                    (/\ IsBulletMarker(CharAt(t, 0))
                     /\ \A j \in 1..(p - 1) : IsSpace(CharAt(t, j))
                     /\ IsBulletMarker(CharAt(t, p))
                     /\ ~MatchesBulletHeader(t)) =>
                        IsNestedItemOf(i, t, p)

\* A step of the forEach that pushes a nested item: the register goes up
\* by one and the item displays the new value.
C19_Increments ==
    (/\ pc = "forEach"
     /\ index' = index + 1
     /\ elements'[index'].kind = "NestedNumberedItem") =>
        /\ nestedCounter' = nestedCounter + 1
        /\ elements'[index'].number = nestedCounter'

C19_NestedRule ==
    /\ [](C19_SpacedMarkersNested)
    /\ [][C19_Increments]_vars

\* "* * Agentic AI refers to autonomy" twice: numbers 1 and 2, and the
\* content without the two markers.
C19_Witness ==
    /\ pc = "done"
    /\ text = TextAgentic \o <<NL>> \o TextAgentic
    /\ Len(elements) = 2
    /\ elements[1].kind = "NestedNumberedItem"
    /\ elements[2].kind = "NestedNumberedItem"
    /\ elements[2].number = 2
    /\ nestedCounter = 2
    /\ Sem(elements[2].children) = <<Text(SliceFrom(TextAgentic, 4))>>

(***************************************************************************)
(* C20: bold scanning is not greedy: a bold span ends at the first closing *)
(* pair after its opening pair, so "**a** b **c**" yields Bold("a"),       *)
(* Text(" b "), Bold("c") in that order and never one merged span, and the *)
(* text between and after the bold spans stays at its place.               *)
(***************************************************************************)
\* The ways a span can have been written: a bold span that ends with a
\* colon had the colon before or after its closing pair.
Written(x) ==
    IF x[1] = "text" THEN {x[2]}
    ELSE IF x[1] = "citation" THEN {<<"[">> \o x[2] \o <<"]">>}
    ELSE {<<"*", "*">> \o x[2] \o <<"*", "*">>}
         \cup (IF x[2] # <<>> /\ x[2][Len(x[2])] = ":"
               THEN {<<"*", "*">> \o SubSeq(x[2], 1, Len(x[2]) - 1) \o <<"*", "*", ":">>}
               ELSE {})

\* The contents a span sequence can have been written as.
RECURSIVE Rebuilds(_)
Rebuilds(sem) ==
    IF sem = <<>> THEN {<<>>}
    ELSE {h \o r : h \in Written(Head(sem)), r \in Rebuilds(Tail(sem))}

C20_BoldEndsAtFirstPair ==
    (pc = "applied" /\ applied = "processBoldAndCitations") =>
        /\ \A k \in 1..Len(Sem(result)) :
              Sem(result)[k][1] = "bold" => ~HasPair(Sem(result)[k][2])
        /\ arg \in Rebuilds(Sem(result))
        /\ arg = ContentTwoBolds =>
              Sem(result) = <<Bold(<<"a">>), Text(<<" ", "b", " ">>), Bold(<<"c">>)>>

C20_Witness ==
    /\ pc = "applied"
    /\ applied = "processBoldAndCitations"
    /\ arg = ContentTwoBolds
    /\ Sem(result) = <<Bold(<<"a">>), Text(<<" ", "b", " ">>), Bold(<<"c">>)>>

(***************************************************************************)
(* C21: a line that starts with a run of digits, a dot and whitespace is   *)
(* a NumberedItem whose label is that digit run as written, leading zeros  *)
(* kept, whatever its position and whatever the register holds; the rest   *)
(* of the line is its content.                                             *)
(***************************************************************************)
C21_NumberedKeepsLabel ==
    Parsing =>
        \A i \in 1..Len(elements) :
            LET t == Trim(PieceOf(text, i))
            IN  \A n \in 1..(Len(t) - 2) :
                    (/\ \A j \in 0..(n - 1) : IsDigit(CharAt(t, j))
                     /\ CharAt(t, n) = "."
                     /\ IsSpace(CharAt(t, n + 1))) =>
                        /\ elements[i].kind = "NumberedItem"
                        /\ elements[i].label = Slice(t, 0, n)
                        /\ \E c \in {SliceFrom(t, k) : k \in 1..Len(t)} :
                              /\ IsAfterMarkerAt(c, t, n)
                              /\ elements[i].children = processBoldAndCitations(c)

\* After a nested item, "007. a" and "007. b": both labelled 007.
C21_Witness ==
    /\ pc = "done"
    /\ Len(elements) = 3
    /\ elements[1].kind = "NestedNumberedItem"
    /\ nestedCounter = 1
    /\ elements[2].kind = "NumberedItem"
    /\ elements[2].label = <<"0", "0", "7">>
    /\ Sem(elements[2].children) = <<Text(<<"a">>)>>
    /\ elements[3].kind = "NumberedItem"
    /\ elements[3].label = <<"0", "0", "7">>

(***************************************************************************)
(* C22: only the text outside the bold spans is handed to the citation     *)
(* extractor: a bracketed number inside a bold span stays in the text of   *)
(* the Bold span and produces no Citation span; "**see [1]**" yields       *)
(* Bold("see [1]") alone.                                                  *)
(***************************************************************************)
BoldsOf(r) == SelectSeq(Sem(r), LAMBDA x : x[1] = "bold")

RECURSIVE MarkersWithin(_)
MarkersWithin(spans) ==
    IF spans = <<>> THEN 0
    ELSE Cardinality(Markers(Head(spans)[2])) + MarkersWithin(Tail(spans))

\* c is one bold span and nothing else: a pair, X with no pair and no line
\* terminator in it, and a pair.
IsOneBold(c) ==
    /\ Len(c) >= 4
    /\ StartsWith(c, 0, <<"*", "*">>)
    /\ StartsWith(c, Len(c) - 2, <<"*", "*">>)
    /\ \A j \in 2..(Len(c) - 3) :
          ~StartsWith(c, j, <<"*", "*">>) /\ ~IsLineTerminator(CharAt(c, j))

C22_NoCitationInsideBold ==
    (pc = "applied" /\ applied = "processBoldAndCitations") =>
        /\ IsOneBold(arg) => Sem(result) = <<Bold(Slice(arg, 2, Len(arg) - 2))>>
        /\ arg \in Rebuilds(Sem(result))
        /\ Len(CitationsOf(result)) + MarkersWithin(BoldsOf(result))
              <= Cardinality(Markers(arg))
        /\ arg = ContentBoldWithCitation =>
              Sem(result) = <<Bold(<<"s", "e", "e", " ", "[", "1", "]">>)>>

C22_Witness ==
    /\ pc = "applied"
    /\ applied = "processBoldAndCitations"
    /\ arg = ContentBoldWithCitation
    /\ Sem(result) = <<Bold(<<"s", "e", "e", " ", "[", "1", "]">>)>>
    /\ Markers(arg) # {}


(***************************************************************************)
(* C23: whenever no handleChatSelect and no handleSendMessage is in        *)
(* flight, every message in messages belongs to the chat selectedChatId    *)
(* names, for any interleaving of selections, new-chat clicks, sends and   *)
(* backend responses.                                                      *)
(***************************************************************************)
Sends == {c \in Pending : c.kind = "send"}
Loads == {c \in Pending : c.kind = "select"}

C23_MessagesOfSelectedChat ==
    (Sends = {} /\ Loads = {}) =>
        \A i \in 1..Len(messages) : messages[i].chat = selectedChatId


(***************************************************************************)
(* C24: every handleSendMessage call that obtains a session appends        *)
(* exactly one user message and, by the time it completes, exactly one     *)
(* assistant message after it (the RAG answer, the fallback reply or the   *)
(* apology), whatever the backend calls return.                            *)
(***************************************************************************)
\* The step takes a handleSendMessage call to its await of sendMessage.
StartsSending(c) ==
    /\ c.kind = "send"
    /\ c.pc = "sending"
    /\ CopiesIn(c, calls') > CopiesIn(c, calls)

\* The step ends the handleSendMessage call c, which had obtained a session.
CompletesSend(c) ==
    /\ c.kind = "send"
    /\ c.pc \in {"sending", "titling"}
    /\ calls' = Finish(c)

AppendsUserMessage(c) ==
    \E before \in {messages, <<>>} : messages' = Append(before, UserMessage(c.chat))

AppendsOneReply(c) ==
    \E kind \in {"rag", "fallback", "apology"} :
        messages' = Append(messages, AssistantMessage(c.chat, kind))

C24_UserMessageOnSend ==
    [][\A c \in BagToSet(calls') : StartsSending(c) => AppendsUserMessage(c)]_vars

C24_OneUserOneReply ==
    [][/\ \A c \in BagToSet(calls') : StartsSending(c) => AppendsUserMessage(c)
       /\ \A c \in Pending : CompletesSend(c) => AppendsOneReply(c)]_vars


(***************************************************************************)
(* C25: at most one handleSendMessage call is in flight at any time: from  *)
(* the moment a message is forwarded until that call completes,            *)
(* handleSubmit forwards no further message, also while the session for    *)
(* the first message is still being created.                               *)
(***************************************************************************)
SendsInFlight == BagCardinality([c \in Sends |-> CopiesIn(c, calls)])

C25_AtMostOneSend == SendsInFlight <= 1


(***************************************************************************)
(* C26: isLoading becomes true only in a step that has appended the user   *)
(* message, and every step that completes a handleSendMessage call leaves  *)
(* it false, whether the backend call succeeded, fell back or threw; a     *)
(* failed session creation changes neither isLoading nor messages.         *)
(***************************************************************************)
\* The step ends the handleSendMessage call c at its failed createSession.
FailsCreation(c) ==
    /\ c.kind = "send"
    /\ c.pc = "creating"
    /\ calls' = Finish(c)

LoadingOnlyWithUserMessage ==
    /\ (~isLoading /\ isLoading') =>
          \E c \in BagToSet(calls') : StartsSending(c) /\ AppendsUserMessage(c)
    /\ \A c \in BagToSet(calls') : StartsSending(c) => isLoading'

LoadingClearedOnCompletion == \A c \in Pending : CompletesSend(c) => ~isLoading'

Earlier(evs, i) == \E j \in 1..(i - 1) : trace[j] \in evs
Traced(ev) == \E i \in 1..Len(trace) : trace[i] = ev

AssistantPosts == {"POST assistant", "POST fallback"}

C27_SendMessageOrder ==
    /\ \A i \in 1..Len(trace) :
          /\ trace[i] = "search" => Earlier({"user ok"}, i)
          /\ trace[i] \in AssistantPosts =>
                Earlier({"search returned", "search failed"}, i)
    /\ Traced("user not ok") =>
          /\ ~Traced("search")
          /\ \A ev \in AssistantPosts : ~Traced(ev)
          /\ apc = "done" => outcome = "throw"

C27_Witness ==
    /\ apc = "done"
    /\ outcome = "fallback"
    /\ trace = <<"POST user", "user ok", "user json", "search", "search failed",
                 "POST fallback", "fallback ok", "fallback json">>

\* The call that throws on a user-message POST that is not ok.
C27_ThrowsReached == apc = "done" /\ Traced("user not ok") /\ outcome = "throw"


(***************************************************************************)
(* C29: getAuthHeaders returns an Authorization header exactly when a      *)
(* token getter is configured and resolves to a non-empty token; with no   *)
(* getter, a getter resolving to null or one that throws, the headers come *)
(* back without Authorization, no error reaches the caller and the request *)
(* goes out.                                                               *)
(***************************************************************************)
\* getAuthHeaders has returned to sendMessage.
HeadersReturned == apc \notin {"idle", "token"}

C29_AuthorizationIffToken ==
    HeadersReturned =>
        /\ Authorization \in headers <=> (getAuthToken /\ token = "token")
        /\ token \in {"uncalled", "null", "empty", "thrown"} => headers = {ContentType}
        /\ token # "uncalled" => getAuthToken
        /\ trace # <<>> /\ trace[1] = "POST user"

C29_Witness ==
    /\ apc = "postUser"
    /\ token = "thrown"
    /\ headers = {ContentType}
    /\ trace = <<"POST user">>

\* The other cases of the claim.
C29_TokenReached == HeadersReturned /\ token = "token" /\ Authorization \in headers
C29_NullReached == HeadersReturned /\ token = "null" /\ Authorization \notin headers
C29_UnsetReached == HeadersReturned /\ token = "uncalled" /\ ~getAuthToken


(***************************************************************************)
(* C28: after any sequence of document toggles, select-all clicks,         *)
(* deletions and reloads in the Sidebar, every selected id is the file_id  *)
(* of a document in documents, so the selected count never exceeds the     *)
(* document count, and the selection reported to the parent holds no       *)
(* deleted document.                                                       *)
(***************************************************************************)
\* The file ids the backend gave out and holds no more.
Deleted == (1..created) \ stored

\* No deletion and no reload is under way.
SidebarSettled == deleting = NoDelete /\ ~loadPending

C28_SelectionWithinDocuments ==
    SidebarSettled =>
        /\ sidebarSelected \subseteq documents
        /\ Cardinality(sidebarSelected) <= Cardinality(documents)
        /\ selectedDocuments \cap Deleted = {}

\* What the handlers do keep: a toggle or a select-all reports documents of
\* the list only.
C28_ReportsListedDocuments ==
    [][selectedDocuments' # selectedDocuments => selectedDocuments' \subseteq documents]_vars


(***************************************************************************)
(* C30: documentAPI.uploadPDF is never called for a file whose type is not *)
(* application/pdf, whichever way the file comes in: drag-and-drop, the    *)
(* file picker of the upload page, or the file input of the sidebar.       *)
(***************************************************************************)
C30_OnlyPdfUploaded ==
    /\ uploadRequests \subseteq {Pdf}
    /\ upload # Idle => upload.type = Pdf
    /\ pageUpload # Idle => pageUpload.type = Pdf

\* A file that is no PDF was offered at the sidebar after a PDF had been
\* uploaded, and nothing but the PDF was posted.
C30_Witness ==
    /\ lastFile = [entry |-> "sidebar", type |-> "text/plain"]
    /\ uploadRequests = {Pdf}
    /\ pageUpload = Idle

\* The same at the other two entry points.
C30_DropRefused == lastFile = [entry |-> "drop", type |-> "text/plain"] /\ upload = Idle
C30_PickerRefused == lastFile = [entry |-> "picker", type |-> ""] /\ upload = Idle

====
